---------------------------- MODULE Spec2Model ----------------------------
(***************************************************************************)
(* A model of git-copilot's code review engines, both of which live in     *)
(* src/agents/code-review-expert.js:                                       *)
(*   - performReview (lines 46-90): scope, analyzeFile per file,           *)
(*     generateReviewReport, fix.md;                                       *)
(*   - reviewCode (lines 681-696): getCodeFiles, analyzeFiles,             *)
(*     identifyIssues, generateReport, getStats.                           *)
(*                                                                         *)
(* Text.  A file's text is the sequence of its lines (what                 *)
(* content.split('\n') returns, which is never empty); a line is a         *)
(* sequence of tokens; a token is a piece of text the rules of the code    *)
(* tell apart, with its length in characters.  Patterns and includes()     *)
(* tests are decided token by token, offsets and lengths are counted in    *)
(* characters.                                                             *)
(***************************************************************************)
EXTENDS Integers, Sequences, FiniteSets, TLC

VARIABLES
    disk,          \* path -> [readable, content, fault]: the files on disk
    scope,         \* the files resolved for review, in processing order
    engine,        \* "none" | "performReview" | "reviewCode"
    pc,            \* "idle" | "analyzing" | "aggregate" | "done"
    idx,           \* position of the per-file loop in scope (next file)
    fileAnalyses,  \* the per-file analyses collected so far
    report,        \* the aggregated report, NoReport before aggregation
    result,        \* what the entry point returned, NoResult before
    run,           \* 1: first run, 2: second run on the same files
    firstReport,   \* what the first run reported (kept by the caller)
    regexLastIndex, \* lastIndex of the last functionRegex object used
    walk,          \* the resolution of the scope: options, tree, progress
    fixMd          \* whether createFixMdFile has written fix.md in this run

vars == <<disk, scope, engine, pc, idx, fileAnalyses, report, result, run,
          firstReport, regexLastIndex, walk, fixMd>>

-----------------------------------------------------------------------------
(* Bounds of the model. *)

\* Most files in scope of one review run.
MaxFiles == 2
\* Most snippets (a line, or a long function) a generated file is made of.
MaxSnippets == 3
\* The most pieces a file of the rule runs is made of.
MaxRulePieces == 2
\* The most directory levels below the root of a working tree.
MaxTreeDepth == 6

(* Program constants. *)

\* analyzeFile: content.length > 50000 is skipped.
SizeCeiling == 50000
\* analyzeFile: content.slice(0, 10000) is what is analysed.
ContentLimit == 10000
\* checkCommonIssues: a span of more than 50 lines is reported.
LongFunctionLines == 50
\* checkPerformance: loopDepth > 2 is reported.
MaxLoopDepth == 2
\* checkMaintainability: more than 4 parameters is reported.
MaxParams == 4
\* calculateComplexity: Math.min(complexity, 100).
ComplexityCap == 100
\* generateReport: slice(0, 5) of the high findings.
PriorityFixes == 5
\* maxDepth of getFilesInDirectory.
MaxDepth == 5
\* head -20 of getAllSourceFiles.
FindLimit == 20

Undefined == "undefined"
NoReport == [kind |-> "none"]
NoResult == [kind |-> "none"]
NoWalk == [mode |-> "none"]

Min(a, b) == IF a < b THEN a ELSE b
Max(a, b) == IF a > b THEN a ELSE b

-----------------------------------------------------------------------------
(* Tokens. *)

\* The length in characters of each token text of the model. The two
\* "<data n>" tokens stand for n characters of data no rule matches (a long
\* string literal, a minified bundle).
TokenLen(s) ==
    CASE s = " "            -> 1
      [] s = ";"            -> 1
      [] s = "{"            -> 1
      [] s = "}"            -> 1
      [] s = "x"            -> 1
      [] s = "//"           -> 2
      [] s = "/*"           -> 2
      [] s = "*"            -> 1
      [] s = "*/"           -> 2
      [] s = "42"           -> 2
      [] s = "100"          -> 3
      [] s = "TODO"         -> 4
      [] s = "FIXME"        -> 5
      [] s = "HACK"         -> 4
      [] s = "todo"         -> 4
      [] s = "var "         -> 4
      [] s = "else"         -> 4
      [] s = "&&"           -> 2
      [] s = "if ("         -> 4
      [] s = "for ("        -> 5
      [] s = "while ("      -> 7
      [] s = "forEach"      -> 7
      [] s = "eval("        -> 5
      [] s = "innerHTML ="  -> 11
      [] s = "console.log"  -> 11
      [] s = "process.env"  -> 11
      [] s = "readFileSync" -> 12
      [] s = "writeFileSync" -> 13
      [] s = "existsSync"   -> 10
      [] s = "function f"   -> 10
      [] s = "class C"      -> 7
      [] s = "const f = ("  -> 11
      [] s = "m: function"  -> 11
      [] s = "password = 'x'" -> 14
      [] s = "api_key = 'x'" -> 13
      [] s = "secret = 'x'" -> 12
      [] s = "token = 'x'"  -> 11
      [] s = "(a, b, c, d, e) =>" -> 18
      [] s = "function (a, b)" -> 15
      [] s = "<data 10000>" -> 10000
      [] s = "<data 50001>" -> 50001
      [] OTHER              -> 1

T(s) == [s |-> s, len |-> TokenLen(s)]

\* The line made of the token texts strs.
Ln(strs) == [i \in 1..Len(strs) |-> T(strs[i])]

RECURSIVE LineLength(_)
\* line.length
LineLength(line) ==
    IF line = <<>> THEN 0 ELSE Head(line).len + LineLength(Tail(line))

RECURSIVE SumLineLengths(_)
\* The lengths of the lines added up, one half of the lines after the other.
SumLineLengths(lines) ==
    IF Len(lines) = 0 THEN 0
    ELSE IF Len(lines) = 1 THEN LineLength(lines[1])
    ELSE SumLineLengths(SubSeq(lines, 1, Len(lines) \div 2))
           + SumLineLengths(SubSeq(lines, Len(lines) \div 2 + 1, Len(lines)))

\* content.length: the lines and the newline between each two of them.
ContentLength(lines) == SumLineLengths(lines) + Len(lines) - 1

\* The offset in its line of token j (0-based, as a match index).
RECURSIVE TokenOffset(_, _)
TokenOffset(line, j) ==
    IF j <= 1 THEN 0 ELSE TokenOffset(line, j - 1) + line[j - 1].len

RECURSIVE TrimLeft(_)
TrimLeft(line) ==
    IF line = <<>> THEN <<>>
    ELSE IF Head(line).s = " " THEN TrimLeft(Tail(line)) ELSE line

RECURSIVE TrimRight(_)
TrimRight(line) ==
    IF line = <<>> THEN <<>>
    ELSE IF line[Len(line)].s = " " THEN TrimRight(SubSeq(line, 1, Len(line) - 1))
    ELSE line

\* line.trim()
Trim(line) == TrimRight(TrimLeft(line))

\* line.trim().startsWith(prefix), for the prefixes the code tests.
StartsWith(line, prefix) ==
    /\ line # <<>>
    /\ Head(line).s = prefix

\* line.trim().endsWith(ch), for the one-character suffixes the code tests.
EndsWith(line, ch) ==
    /\ line # <<>>
    /\ line[Len(line)].s = ch

\* The needles of the includes() tests that occur in a token's text.
Needles(s) ==
    CASE s = "console.log"   -> {"console.log"}
      [] s = "TODO"          -> {"TODO"}
      [] s = "FIXME"         -> {"FIXME"}
      [] s = "eval("         -> {"eval("}
      [] s = "process.env"   -> {"process.env"}
      [] s = "readFileSync"  -> {"readFileSync"}
      [] s = "writeFileSync" -> {"writeFileSync"}
      [] s = "existsSync"    -> {"existsSync"}
      [] s = "for ("         -> {"for "}
      [] s = "while ("       -> {"while "}
      [] s = "forEach"       -> {"forEach"}
      [] s = "}"             -> {"}"}
      [] OTHER               -> {}

\* line.includes(needle)
Includes(line, needle) ==
    \E j \in 1..Len(line) : needle \in Needles(line[j].s)

\* content.slice(0, n) within one line: the tokens that fit, and what is
\* left of the token the cut falls in (a fragment no pattern matches).
RECURSIVE SliceLine(_, _)
SliceLine(line, n) ==
    IF line = <<>> \/ n <= 0 THEN <<>>
    ELSE IF Head(line).len <= n
         THEN <<Head(line)>> \o SliceLine(Tail(line), n - Head(line).len)
         ELSE <<[s |-> "<cut>", len |-> n]>>

\* content.slice(0, n).split('\n'), of the text whose lines are lines.
\* When the first half of the lines, with the newline after each of them,
\* has more than n characters the slice ends in it; otherwise that half is
\* whole and the rest of the slice is taken from the second half.
RECURSIVE SliceLines(_, _)
SliceLines(lines, n) ==
    IF Len(lines) = 1 THEN <<SliceLine(lines[1], n)>>
    ELSE LET h == Len(lines) \div 2
             first == SubSeq(lines, 1, h)
             firstLength == SumLineLengths(first) + h
         IN  IF n < firstLength THEN SliceLines(first, n)
             ELSE first \o SliceLines(SubSeq(lines, h + 1, Len(lines)),
                                      n - firstLength)

-----------------------------------------------------------------------------
(* reviewCode's checks (the second CodeReviewExpert class of the file). *)

Issue(type, category, line, text, n, severity) ==
    [type |-> type, category |-> category, line |-> line,
     message |-> [text |-> text, n |-> n], severity |-> severity]

RECURSIVE ConcatRange(_, _, _)
\* The sequences lo..hi of seqs one after the other.
ConcatRange(seqs, lo, hi) ==
    IF lo > hi THEN <<>>
    ELSE IF lo = hi THEN seqs[lo]
    ELSE ConcatRange(seqs, lo, (lo + hi) \div 2)
           \o ConcatRange(seqs, (lo + hi) \div 2 + 1, hi)

\* The sequences of seqs one after the other (issues.push(...) in order).
Concat(seqs) == ConcatRange(seqs, 1, Len(seqs))

\* line.trim().startsWith('//')
IsCommentLine(line) == StartsWith(Trim(line), "//")

ConsoleLogCheck(line, i) ==
    IF Includes(line, "console.log") /\ ~IsCommentLine(line)
    THEN <<Issue("warning", "Debug Code", i, "Console.log statement found", 0, "low")>>
    ELSE <<>>

TodoCheck(line, i) ==
    IF Includes(line, "TODO") \/ Includes(line, "FIXME")
    THEN <<Issue("info", "TODO/FIXME", i, "TODO or FIXME comment found", 0, "info")>>
    ELSE <<>>

\* The four alternatives of functionRegex: the first, second and fourth match
\* anywhere in the line, the third (^\s*\w+\s*:\s*function) only from the
\* start of the line.
DeclAnywhere == {"function f", "const f = (", "class C"}
DeclAtStart == {"m: function"}

\* Token j of line is a match of functionRegex for a search from lastIndex.
IsDeclMatch(line, j, lastIndex) ==
    /\ TokenOffset(line, j) >= lastIndex
    /\ \/ line[j].s \in DeclAnywhere
       \/ /\ line[j].s \in DeclAtStart
          /\ lastIndex = 0
          /\ \A k \in 1..(j - 1) : line[k].s = " "

\* functionRegex.test(line) of a /g regex whose lastIndex is lastIndex: the
\* search starts at lastIndex; a match leaves lastIndex at its end, a failure
\* resets it to 0.
RegexTest(line, lastIndex) ==
    LET hits == {j \in 1..Len(line) : IsDeclMatch(line, j, lastIndex)}
    IN  IF hits = {} THEN [matched |-> FALSE, lastIndex |-> 0]
        ELSE LET j == CHOOSE h \in hits : \A g \in hits : h <= g
             IN  [matched |-> TRUE,
                  lastIndex |-> TokenOffset(line, j) + line[j].len]

\* (line.match(/\{/g) || []).length and the same for }.
RECURSIVE CountToken(_, _)
CountToken(line, s) ==
    IF line = <<>> THEN 0
    ELSE (IF Head(line).s = s THEN 1 ELSE 0) + CountToken(Tail(line), s)

\* The state of the long-function scan before its first line; lastIndex is
\* that of the functionRegex object the scan uses.
FnScanInit(lastIndex) ==
    [currentFunction |-> FALSE, functionStartLine |-> 0, braceCount |-> 0,
     lastIndex |-> lastIndex, issues |-> <<>>]

\* FnStep with the function anchored at the 0-based index of its line
\* instead of index + 1: the fault the line-range property C3 must detect.
FnStep_ZeroBasedLine(st, line, index) ==
    LET t == RegexTest(line, st.lastIndex)
        cur == t.matched \/ st.currentFunction
        start == IF t.matched THEN index ELSE st.functionStartLine
        brace0 == IF t.matched THEN 0 ELSE st.braceCount
        brace == IF cur
                 THEN brace0 + CountToken(line, "{") - CountToken(line, "}")
                 ELSE brace0
        span == index - start + 1
        emit == cur /\ brace = 0 /\ span > LongFunctionLines
    IN  [currentFunction |-> cur /\ ~emit,
         functionStartLine |-> start,
         braceCount |-> brace,
         lastIndex |-> t.lastIndex,
         issues |-> IF emit
                    THEN Append(st.issues,
                                Issue("warning", "Code Complexity", start,
                                      "Function is too long", span, "medium"))
                    ELSE st.issues]

\* FnStep without currentFunction = null after a finding (line 823): the
\* fault the property C11 must detect.
FnStep_NoReset(st, line, index) ==
    LET t == RegexTest(line, st.lastIndex)
        cur == t.matched \/ st.currentFunction
        start == IF t.matched THEN index + 1 ELSE st.functionStartLine
        brace0 == IF t.matched THEN 0 ELSE st.braceCount
        brace == IF cur
                 THEN brace0 + CountToken(line, "{") - CountToken(line, "}")
                 ELSE brace0
        span == index - start + 1
        emit == cur /\ brace = 0 /\ span > LongFunctionLines
    IN  [currentFunction |-> cur,
         functionStartLine |-> start,
         braceCount |-> brace,
         lastIndex |-> t.lastIndex,
         issues |-> IF emit
                    THEN Append(st.issues,
                                Issue("warning", "Code Complexity", start,
                                      "Function is too long", span, "medium"))
                    ELSE st.issues]

\* One call of the callback of lines.forEach at line 804; index is 0-based.
FnStep(st, line, index) ==
    LET t == RegexTest(line, st.lastIndex)
        cur == t.matched \/ st.currentFunction
        start == IF t.matched THEN index + 1 ELSE st.functionStartLine
        brace0 == IF t.matched THEN 0 ELSE st.braceCount
        brace == IF cur
                 THEN brace0 + CountToken(line, "{") - CountToken(line, "}")
                 ELSE brace0
        span == index - start + 1
        emit == cur /\ brace = 0 /\ span > LongFunctionLines
    IN  [currentFunction |-> cur /\ ~emit,
         functionStartLine |-> start,
         braceCount |-> brace,
         lastIndex |-> t.lastIndex,
         issues |-> IF emit
                    THEN Append(st.issues,
                                Issue("warning", "Code Complexity", start,
                                      "Function is too long", span, "medium"))
                    ELSE st.issues]

RECURSIVE FnScanRange(_, _, _, _)
\* The scan of the lines lo..hi from state st: the first half of them, then
\* the second half from the state the first half ends in.  (The test of
\* left.issues makes TLC compute that state before it goes on; it always
\* holds.)
FnScanRange(st, lines, lo, hi) ==
    IF lo > hi THEN st
    ELSE IF lo = hi THEN FnStep(st, lines[lo], lo - 1)
    ELSE LET left == FnScanRange(st, lines, lo, (lo + hi) \div 2)
         IN  IF Len(left.issues) >= 0
             THEN FnScanRange(left, lines, (lo + hi) \div 2 + 1, hi)
             ELSE st

\* The scan of the lines i..Len(lines) from state st.
FnScanFrom(st, lines, i) == FnScanRange(st, lines, i, Len(lines))

\* The whole long-function scan of a file whose regex starts at lastIndex.
FnScan(lines, lastIndex) == FnScanFrom(FnScanInit(lastIndex), lines, 1)

\* checkCommonIssues(content, file)
CheckCommonIssues(lines, lastIndex) ==
    Concat([i \in 1..Len(lines) |-> ConsoleLogCheck(lines[i], i)])
      \o Concat([i \in 1..Len(lines) |-> TodoCheck(lines[i], i)])
      \o FnScan(lines, lastIndex).issues

\* The secretPatterns (1: password, 2: api[_-]?key, 3: secret, 4: token, each
\* followed by = or : and a quoted literal) that match in a token's text.
SecretPatternsOf(s) ==
    CASE s = "password = 'x'" -> {1}
      [] s = "api_key = 'x'"  -> {2}
      [] s = "secret = 'x'"   -> {3}
      [] s = "token = 'x'"    -> {4}
      [] OTHER                -> {}

\* pattern.test(line) of secret pattern p (no /g flag: no state).
SecretTest(p, line) == \E j \in 1..Len(line) : p \in SecretPatternsOf(line[j].s)

\* SecretCheck without the process.env exemption of line 845: the fault the
\* property C12 must detect.
SecretCheck_NoEnvExemption(line, i) ==
    Concat([p \in 1..4 |->
        IF SecretTest(p, line)
        THEN <<Issue("error", "Security", i,
                     "Possible hardcoded secret detected", 0, "high")>>
        ELSE <<>>])

\* SecretCheck with the comment test the other checks have (as at line 772):
\* the fault the property C13 must detect.
SecretCheck_SkipsComments(line, i) ==
    Concat([p \in 1..4 |->
        IF SecretTest(p, line) /\ ~Includes(line, "process.env")
           /\ ~IsCommentLine(line)
        THEN <<Issue("error", "Security", i,
                     "Possible hardcoded secret detected", 0, "high")>>
        ELSE <<>>])

\* The callback of lines.forEach at line 843: the four patterns in order.
SecretCheck(line, i) ==
    Concat([p \in 1..4 |->
        IF SecretTest(p, line) /\ ~Includes(line, "process.env")
        THEN <<Issue("error", "Security", i,
                     "Possible hardcoded secret detected", 0, "high")>>
        ELSE <<>>])

\* content.split('\n').findIndex(line => line.includes('eval(')) + 1
EvalLine(lines) ==
    LET hits == {i \in 1..Len(lines) : Includes(lines[i], "eval(")}
    IN  IF hits = {} THEN 0 ELSE CHOOSE i \in hits : \A k \in hits : i <= k

\* checkSecurity(content, file)
CheckSecurity(lines) ==
    Concat([i \in 1..Len(lines) |-> SecretCheck(lines[i], i)])
      \o (IF \E i \in 1..Len(lines) : Includes(lines[i], "eval(")
          THEN <<Issue("error", "Security", EvalLine(lines),
                       "Use of eval() is dangerous", 0, "high")>>
          ELSE <<>>)

syncMethods == <<"readFileSync", "writeFileSync", "existsSync">>

\* The callback of lines.forEach at line 877: the three methods in order.
SyncCheck(line, i) ==
    Concat([m \in 1..Len(syncMethods) |->
        IF Includes(line, syncMethods[m]) /\ ~IsCommentLine(line)
        THEN <<Issue("warning", "Performance", i,
                     "Synchronous call may block the event loop: " \o syncMethods[m],
                     0, "medium")>>
        ELSE <<>>])

IsLoopLine(line) ==
    Includes(line, "for ") \/ Includes(line, "while ") \/ Includes(line, "forEach")

LoopScanInit == [loopDepth |-> 0, issues |-> <<>>]

\* LoopStep reporting from depth MaxLoopDepth on instead of above it: the
\* fault the property C16 must detect.
LoopStep_ReportsAtLimit(st, line, index) ==
    LET depth == IF IsLoopLine(line) THEN st.loopDepth + 1 ELSE st.loopDepth
        emit == IsLoopLine(line) /\ depth >= MaxLoopDepth
    IN  [loopDepth |-> IF Includes(line, "}") THEN Max(0, depth - 1) ELSE depth,
         issues |-> IF emit
                    THEN Append(st.issues,
                                Issue("warning", "Performance", index + 1,
                                      "Deeply nested loops detected", 0, "medium"))
                    ELSE st.issues]

\* LoopStep decrementing without the floor at zero: the fault the property
\* C28 must detect.
LoopStep_NoFloor(st, line, index) ==
    LET depth == IF IsLoopLine(line) THEN st.loopDepth + 1 ELSE st.loopDepth
        emit == IsLoopLine(line) /\ depth > MaxLoopDepth
    IN  [loopDepth |-> IF Includes(line, "}") THEN depth - 1 ELSE depth,
         issues |-> IF emit
                    THEN Append(st.issues,
                                Issue("warning", "Performance", index + 1,
                                      "Deeply nested loops detected", 0, "medium"))
                    ELSE st.issues]

\* LoopStep reporting on every line scanned at a depth above MaxLoopDepth,
\* loop line or not: the fault the property C27 must detect.
LoopStep_ReportsEveryLine(st, line, index) ==
    LET depth == IF IsLoopLine(line) THEN st.loopDepth + 1 ELSE st.loopDepth
        emit == depth > MaxLoopDepth
    IN  [loopDepth |-> IF Includes(line, "}") THEN Max(0, depth - 1) ELSE depth,
         issues |-> IF emit
                    THEN Append(st.issues,
                                Issue("warning", "Performance", index + 1,
                                      "Deeply nested loops detected", 0, "medium"))
                    ELSE st.issues]

\* One call of the callback of lines.forEach at line 893; index is 0-based.
LoopStep(st, line, index) ==
    LET depth == IF IsLoopLine(line) THEN st.loopDepth + 1 ELSE st.loopDepth
        emit == IsLoopLine(line) /\ depth > MaxLoopDepth
    IN  [loopDepth |-> IF Includes(line, "}") THEN Max(0, depth - 1) ELSE depth,
         issues |-> IF emit
                    THEN Append(st.issues,
                                Issue("warning", "Performance", index + 1,
                                      "Deeply nested loops detected", 0, "medium"))
                    ELSE st.issues]

RECURSIVE LoopScanRange(_, _, _, _)
\* The scan of the lines lo..hi from state st: the first half of them, then
\* the second half from the state the first half ends in.  (The test of
\* left.issues makes TLC compute that state before it goes on; it always
\* holds.)
LoopScanRange(st, lines, lo, hi) ==
    IF lo > hi THEN st
    ELSE IF lo = hi THEN LoopStep(st, lines[lo], lo - 1)
    ELSE LET left == LoopScanRange(st, lines, lo, (lo + hi) \div 2)
         IN  IF Len(left.issues) >= 0
             THEN LoopScanRange(left, lines, (lo + hi) \div 2 + 1, hi)
             ELSE st

\* The scan of the lines i..Len(lines) from state st.
LoopScanFrom(st, lines, i) == LoopScanRange(st, lines, i, Len(lines))

\* checkPerformance(content, file)
CheckPerformance(lines) ==
    Concat([i \in 1..Len(lines) |-> SyncCheck(lines[i], i)])
      \o LoopScanFrom(LoopScanInit, lines, 1).issues

\* parseInt(num) of a token that /\b(\d{2,})\b/ matches, 0 of any other.
NumberValue(s) ==
    CASE s = "42" -> 42 [] s = "100" -> 100 [] OTHER -> 0

\* The callback of lines.forEach at line 919.
MagicNumberCheck(line, i) ==
    IF IsCommentLine(line) THEN <<>>
    ELSE Concat([j \in 1..Len(line) |->
        LET num == NumberValue(line[j].s)
        IN  IF num > 1 /\ num # 100 /\ num # 1000
            THEN <<Issue("info", "Maintainability", i, "Magic number found",
                         num, "low")>>
            ELSE <<>>])

\* match.split(',').length of a token that the parameter-list regex of line
\* 937 matches, 0 of any other.
ParamCount(s) ==
    CASE s = "(a, b, c, d, e) =>" -> 5 [] s = "function (a, b)" -> 2 [] OTHER -> 0

\* The callback of lines.forEach at line 938.
ParamListCheck(line, i) ==
    Concat([j \in 1..Len(line) |->
        IF ParamCount(line[j].s) > MaxParams
        THEN <<Issue("warning", "Maintainability", i, "Function has parameters",
                     ParamCount(line[j].s), "low")>>
        ELSE <<>>])

\* checkMaintainability(content, file)
CheckMaintainability(lines) ==
    Concat([i \in 1..Len(lines) |-> MagicNumberCheck(lines[i], i)])
      \o Concat([i \in 1..Len(lines) |-> ParamListCheck(lines[i], i)])

-----------------------------------------------------------------------------
(* performReview's analysis (the first CodeReviewExpert class of the file). *)

\* obj.field of a JavaScript object: undefined when the object has no such
\* field.
Get(obj, field) == IF field \in DOMAIN obj THEN obj[field] ELSE Undefined

\* Whether obj.field is defined.
Has(obj, field) == field \in DOMAIN obj

\* The pattern rules of performStaticAnalysis, in declaration order.
patterns == <<
    [severity |-> "LOW", type |-> "Debug Code",
     message |-> "Console.log statements should be removed in production code"],
    [severity |-> "MEDIUM", type |-> "Technical Debt",
     message |-> "TODO/FIXME comments indicate unfinished work"],
    [severity |-> "CRITICAL", type |-> "Security",
     message |-> "Use of eval() can lead to security vulnerabilities"],
    [severity |-> "HIGH", type |-> "Security",
     message |-> "innerHTML assignment may lead to XSS vulnerabilities"],
    [severity |-> "LOW", type |-> "Modern JavaScript",
     message |-> "Consider using let/const instead of var"] >>

\* The token texts that pattern k matches: /console\.log/g, /TODO|FIXME|HACK/gi,
\* /eval\s*\(/g, /innerHTML\s*=/g, /var\s+/g.
PatternTokens(k) ==
    CASE k = 1 -> {"console.log"}
      [] k = 2 -> {"TODO", "FIXME", "HACK", "todo"}
      [] k = 3 -> {"eval("}
      [] k = 4 -> {"innerHTML ="}
      [] k = 5 -> {"var "}

\* match.index: the offset in the text of token j of line i.
MatchIndex(lines, i, j) ==
    SumLineLengths(SubSeq(lines, 1, i - 1)) + (i - 1) + TokenOffset(lines[i], j)

\* MatchIssue with the length of the last line as the column, without the
\* + 1 of line 312: the fault the property C21 must detect.
MatchIssue_ZeroBasedColumn(k, content, index, code) ==
    LET lines == SliceLines(content, index)
    IN  [severity |-> patterns[k].severity, type |-> patterns[k].type,
         message |-> patterns[k].message, line |-> Len(lines),
         column |-> LineLength(lines[Len(lines)]), code |-> code]

\* The finding of one match of pattern k at offset index: lines is
\* content.substring(0, match.index).split('\n').
MatchIssue(k, content, index, code) ==
    LET lines == SliceLines(content, index)
    IN  [severity |-> patterns[k].severity, type |-> patterns[k].type,
         message |-> patterns[k].message, line |-> Len(lines),
         column |-> LineLength(lines[Len(lines)]) + 1, code |-> code]

\* [...content.matchAll(pattern)] of pattern k, each match made a finding.
PatternIssues(k, content) ==
    Concat([i \in 1..Len(content) |->
        Concat([j \in 1..Len(content[i]) |->
            IF content[i][j].s \in PatternTokens(k)
            THEN <<MatchIssue(k, content, MatchIndex(content, i, j),
                              content[i][j].s)>>
            ELSE <<>>])])

\* The filter of line 322: a line that is not blank, not a comment, and ends
\* with none of ; { }.
IsOpenStatement(line) ==
    LET t == Trim(line)
    IN  /\ t # <<>>
        /\ ~StartsWith(t, "//")
        /\ ~StartsWith(t, "*")
        /\ ~EndsWith(t, ";")
        /\ ~EndsWith(t, "{")
        /\ ~EndsWith(t, "}")

\* The semicolon-style heuristic of lines 320-340:
\* statements.length > fileInfo.lines * 0.3.
SemicolonIssues(fileInfo) ==
    IF /\ fileInfo.extension \in {".js", ".ts"}
       /\ 10 * Cardinality({i \in 1..Len(fileInfo.content) :
                                 IsOpenStatement(fileInfo.content[i])})
            > 3 * fileInfo.lines
    THEN <<[severity |-> "LOW", type |-> "Code Style",
            message |-> "Consider using consistent semicolon usage",
            line |-> 1, column |-> 1, code |-> Undefined]>>
    ELSE <<>>

\* The token texts each of the seven complexityIndicators matches.
ComplexityTokens ==
    <<{"if ("}, {"else"}, {"for ("}, {"while ("}, {"switch ("}, {"catch ("},
      {"&&", "||"}>>

RECURSIVE CountTokensIn(_, _)
\* (content.match(pattern) || []).length of a pattern matching the texts in set.
CountTokensIn(lines, set) ==
    IF Len(lines) = 0 THEN 0
    ELSE IF Len(lines) = 1
    THEN Cardinality({j \in 1..Len(lines[1]) : lines[1][j].s \in set})
    ELSE CountTokensIn(SubSeq(lines, 1, Len(lines) \div 2), set)
           + CountTokensIn(SubSeq(lines, Len(lines) \div 2 + 1, Len(lines)), set)

RECURSIVE ComplexityFrom(_, _)
ComplexityFrom(content, k) ==
    IF k > Len(ComplexityTokens) THEN 0
    ELSE CountTokensIn(content, ComplexityTokens[k]) + ComplexityFrom(content, k + 1)

\* calculateComplexity(content)
CalculateComplexity(content) == Min(1 + ComplexityFrom(content, 1), ComplexityCap)

\* The filter of line 384: a line counted as a comment line.
IsCommentLineA(line) ==
    LET t == Trim(line)
    IN  StartsWith(t, "//") \/ StartsWith(t, "*") \/ StartsWith(t, "/*")

\* assessMaintainability(content, fileInfo).  The two ratios are kept as
\* fractions <<numerator, denominator>> and compared exactly.
AssessMaintainability(content, fileInfo) ==
    LET n == Len(content)
        commentLines == Cardinality({i \in 1..Len(content) : IsCommentLineA(content[i])})
        length == ContentLength(content)
        s1 == 10 - (IF fileInfo.lines > 500 THEN 2 ELSE 0)
                 - (IF fileInfo.lines > 1000 THEN 3 ELSE 0)
        s2 == s1 - (IF 10 * commentLines < n THEN 2 ELSE 0)
                 + (IF 10 * commentLines > 3 * n THEN 1 ELSE 0)
        s3 == s2 - (IF length > 120 * n THEN 1 ELSE 0)
                 - (IF length > 200 * n THEN 2 ELSE 0)
    IN  [score |-> Max(1, Min(10, s3)),
         commentRatio |-> <<commentLines, n>>,
         avgLineLength |-> <<length, n>>]

\* The findings of rule k of performStaticAnalysis: the five patterns, then
\* the semicolon heuristic.
RuleIssuesA(k, fileInfo) ==
    IF k <= Len(patterns) THEN PatternIssues(k, fileInfo.content)
    ELSE SemicolonIssues(fileInfo)

NumRulesA == 6

\* performStaticAnalysis(fileInfo)
PerformStaticAnalysis(fileInfo) ==
    [issues |-> Concat([k \in 1..NumRulesA |-> RuleIssuesA(k, fileInfo)]),
     complexity |-> CalculateComplexity(fileInfo.content),
     maintainability |-> AssessMaintainability(fileInfo.content, fileInfo)]

\* path.extname(filePath)
ExtName(path) ==
    CASE path = "a.js" -> ".js"
      [] path = "b.py" -> ".py"
      [] path = "c.ts" -> ".ts"
      [] path = "d.JS" -> ".JS"
      [] path = "e.rb" -> ".rb"
      [] path = "f.go" -> ".go"
      [] path = "g.rs" -> ".rs"
      [] path = "h.c"  -> ".c"
      [] path = "v.js" -> ".js"
      [] path = "README.md" -> ".md"
      [] OTHER -> ""

\* analyzeFile(filePath), file being what is on disk at filePath.  A file
\* that cannot be read, and a rule that throws (file.fault names it), both end
\* in the catch of line 252.  The content field (the sliced text) is left out
\* of the stored analysis: nothing reads it after performStaticAnalysis.
AnalyzeFile(filePath, file) ==
    IF ~file.readable
    THEN [filePath |-> filePath, error |-> "read failed"]
    ELSE IF ContentLength(file.content) > SizeCeiling
    THEN [filePath |-> filePath, skipped |-> TRUE,
          reason |-> "File too large for review"]
    ELSE IF file.fault \in 1..NumRulesA
    THEN [filePath |-> filePath, error |-> "rule failed"]
    ELSE LET fileInfo == [path |-> filePath,
                          size |-> ContentLength(file.content),
                          extension |-> ExtName(filePath),
                          lines |-> Len(file.content),
                          content |-> SliceLines(file.content, ContentLimit)]
             res == PerformStaticAnalysis(fileInfo)
         IN  [path |-> filePath, size |-> fileInfo.size,
              extension |-> fileInfo.extension, lines |-> fileInfo.lines,
              issues |-> res.issues, complexity |-> res.complexity,
              maintainability |-> res.maintainability]

-----------------------------------------------------------------------------
(* reviewCode's per-file analysis. *)

NumChecksB == 4

\* NewRegexLastIndex with the regex object hoisted out of checkCommonIssues
\* and shared by all calls: the fault the properties C8 and C9 must detect.
NewRegexLastIndex_Hoisted(carried) == carried

\* The lastIndex a functionRegex object starts with: line 799 evaluates the
\* regex literal anew in every call of checkCommonIssues, so whatever
\* lastIndex the object of an earlier call was left with is not carried over.
NewRegexLastIndex(carried) == 0

\* The findings of the c-th check pushed by analyzeFiles (lines 754-757).
RuleIssuesB(c, lines, carried) ==
    CASE c = 1 -> CheckCommonIssues(lines, NewRegexLastIndex(carried))
      [] c = 2 -> CheckSecurity(lines)
      [] c = 3 -> CheckPerformance(lines)
      [] c = 4 -> CheckMaintainability(lines)

\* AnalyzeFilesStep with the analysis pushed before the checks run, so that
\* the findings of the checks before the throwing one are kept: the fault
\* the property C7 must detect.
AnalyzeFilesStep_PushedFirst(path, file, carried) ==
    IF ~file.readable THEN <<>>
    ELSE <<[file |-> path,
            lineCount |-> Len(file.content),
            size |-> ContentLength(file.content),
            issues |-> Concat([c \in 1..NumChecksB |->
                                 IF file.fault \in 1..NumChecksB /\ c >= file.fault
                                 THEN <<>>
                                 ELSE RuleIssuesB(c, file.content, carried)])]>>

\* The body of the loop of analyzeFiles for one file: the analysis pushed
\* (<<>> when the catch of line 760 is taken: the file cannot be read, or a
\* check throws).  The content and lines fields are left out of the stored
\* analysis, lineCount is lines.length.
AnalyzeFilesStep(path, file, carried) ==
    IF ~file.readable \/ file.fault \in 1..NumChecksB THEN <<>>
    ELSE <<[file |-> path,
            lineCount |-> Len(file.content),
            size |-> ContentLength(file.content),
            issues |-> Concat([c \in 1..NumChecksB |->
                                 RuleIssuesB(c, file.content, carried)])]>>

\* The lastIndex the functionRegex of this file's checkCommonIssues ends with.
RegexLastIndexAfter(file, carried) ==
    IF ~file.readable THEN carried
    ELSE FnScan(file.content, NewRegexLastIndex(carried)).lastIndex

-----------------------------------------------------------------------------
(* Aggregation. *)

RECURSIVE InsertBySeverity_Unstable(_, _, _)
\* InsertBySeverity of an unstable sort, which puts x before the elements
\* that compare equal: the fault the stability property C10 must detect.
InsertBySeverity_Unstable(sorted, x, order) ==
    IF sorted = <<>> THEN <<x>>
    ELSE IF order[x.severity] - order[Head(sorted).severity] <= 0
         THEN <<x>> \o sorted
         ELSE <<Head(sorted)>> \o InsertBySeverity_Unstable(Tail(sorted), x, order)

RECURSIVE InsertBySeverity(_, _, _)
\* Where a stable sort puts x in the sorted run before it: after every
\* element that does not compare greater.
InsertBySeverity(sorted, x, order) ==
    IF sorted = <<>> THEN <<x>>
    ELSE IF order[x.severity] - order[Head(sorted).severity] < 0
         THEN <<x>> \o sorted
         ELSE <<Head(sorted)>> \o InsertBySeverity(Tail(sorted), x, order)

RECURSIVE SortFrom(_, _, _, _)
SortFrom(sorted, issues, i, order) ==
    IF i > Len(issues) THEN sorted
    ELSE SortFrom(InsertBySeverity(sorted, issues[i], order), issues, i + 1, order)

\* SortBySeverity with the sort left out: the fault the order property C1
\* must detect.
SortBySeverity_Unsorted(issues, order) == issues

\* allIssues.sort((a, b) => severityOrder[a.severity] - severityOrder[b.severity]):
\* Array.prototype.sort is stable (Node.js >= 16 is required), and the
\* comparator is a total preorder on the severities the rules emit.
SortBySeverity(issues, order) == SortFrom(<<>>, issues, 1, order)

\* issues.filter(i => i.severity === sev).length
CountSeverity(issues, sev) ==
    Cardinality({i \in 1..Len(issues) : issues[i].severity = sev})

\* { ...issue, file: f }
WithFile(issue, f) ==
    [k \in DOMAIN issue \cup {"file"} |-> IF k = "file" THEN f ELSE issue[k]]

severityOrderA ==
    [CRITICAL |-> 0, HIGH |-> 1, MEDIUM |-> 2, LOW |-> 3, INFO |-> 4]

\* The issues generateReviewReport collects from one analysis (line 462).
CollectedIssuesA(analysis) ==
    IF ~Has(analysis, "issues") THEN <<>>
    ELSE [i \in 1..Len(analysis.issues) |->
             WithFile(analysis.issues[i], Get(analysis, "path"))]

\* The entry generateReviewReport pushes to filesSummary (line 471).
FileSummaryA(analysis) ==
    [file |-> Get(analysis, "path"),
     issues |-> IF ~Has(analysis, "issues") THEN 0
                ELSE Len(analysis.issues),
     complexity |-> IF ~Has(analysis, "complexity") THEN 0
                    ELSE analysis.complexity,
     maintainability |-> IF ~Has(analysis, "maintainability")
                         THEN [score |-> 5]
                         ELSE analysis.maintainability,
     skipped |-> IF ~Has(analysis, "skipped") THEN FALSE
                 ELSE analysis.skipped]

\* The summary of generateReviewReport (lines 488-495).
SummaryA(analyses, allIssues) ==
    [filesReviewed |-> Len(analyses),
     totalIssues |-> Len(allIssues),
     criticalIssues |-> CountSeverity(allIssues, "CRITICAL"),
     highIssues |-> CountSeverity(allIssues, "HIGH"),
     mediumIssues |-> CountSeverity(allIssues, "MEDIUM"),
     lowIssues |-> CountSeverity(allIssues, "LOW")]

\* generateReviewReport(fileAnalyses, projectContext, options); aiInsights is
\* what generateAIInsights resolved to.  projectContext (package and git
\* information, a timestamp) is left out.
GenerateReviewReport(analyses, aiInsights) ==
    LET allIssues ==
            SortBySeverity(
                Concat([i \in 1..Len(analyses) |-> CollectedIssuesA(analyses[i])]),
                severityOrderA)
    IN  [kind |-> "performReview",
         summary |-> SummaryA(analyses, allIssues),
         issues |-> allIssues,
         filesSummary |-> [i \in 1..Len(analyses) |-> FileSummaryA(analyses[i])],
         aiInsights |-> aiInsights]

severityOrderB == [high |-> 0, medium |-> 1, low |-> 2, info |-> 3]

\* identifyIssues(analysis, rules)
IdentifyIssues(analysis) ==
    SortBySeverity(
        Concat([i \in 1..Len(analysis) |->
            [j \in 1..Len(analysis[i].issues) |->
                WithFile(analysis[i].issues[j], analysis[i].file)]]),
        severityOrderB)

RECURSIVE GroupByCategory(_, _, _)
\* The reduce of line 1003: the issues grouped by category, the groups in the
\* order in which their categories first occur (the key order of the object).
GroupByCategory(acc, issues, i) ==
    IF i > Len(issues) THEN acc
    ELSE LET c == issues[i].category
             at == {g \in 1..Len(acc) : acc[g].category = c}
         IN  IF at = {}
             THEN GroupByCategory(
                      Append(acc, [category |-> c, issues |-> <<issues[i]>>]),
                      issues, i + 1)
             ELSE LET g == CHOOSE h \in at : TRUE
                  IN  GroupByCategory(
                          [acc EXCEPT ![g].issues = Append(@, issues[i])],
                          issues, i + 1)

\* issues.filter(pred) for pred "severity is sev".
RECURSIVE FilterSeverity(_, _)
FilterSeverity(issues, sev) ==
    IF issues = <<>> THEN <<>>
    ELSE (IF Head(issues).severity = sev THEN <<Head(issues)>> ELSE <<>>)
           \o FilterSeverity(Tail(issues), sev)

\* GenerateReport without the slice(0, 5) of line 1038: the fault the
\* property C22 must detect.
GenerateReport_Unsliced(issues) ==
    [total |-> Len(issues),
     bySeverity |-> [sev \in {"high", "medium", "low", "info"} |->
                        CountSeverity(issues, sev)],
     byCategory |-> GroupByCategory(<<>>, issues, 1),
     priorityFixes |-> FilterSeverity(issues, "high")]

\* generateReport(issues), as the data the report text is rendered from: the
\* total, the four counts of "Issues by Severity" (bySeverity.high || 0, ...),
\* the category groups with their sizes, and the "High Priority Fixes" list.
GenerateReport(issues) ==
    [total |-> Len(issues),
     bySeverity |-> [sev \in {"high", "medium", "low", "info"} |->
                        CountSeverity(issues, sev)],
     byCategory |-> GroupByCategory(<<>>, issues, 1),
     priorityFixes |-> LET high == FilterSeverity(issues, "high")
                       IN  SubSeq(high, 1, Min(PriorityFixes, Len(high)))]

\* GetStats with the info findings left uncounted: the fault the count
\* property C2 must detect.
GetStats_InfoUncounted(issues) ==
    [total |-> Len(issues),
     high |-> CountSeverity(issues, "high"),
     medium |-> CountSeverity(issues, "medium"),
     low |-> CountSeverity(issues, "low"),
     info |-> 0]

\* getStats(issues)
GetStats(issues) ==
    [total |-> Len(issues),
     high |-> CountSeverity(issues, "high"),
     medium |-> CountSeverity(issues, "medium"),
     low |-> CountSeverity(issues, "low"),
     info |-> CountSeverity(issues, "info")]

\* generateSummary(issues)
GenerateSummary(issues) ==
    [total |-> Len(issues),
     high |-> CountSeverity(issues, "high"),
     medium |-> CountSeverity(issues, "medium")]

-----------------------------------------------------------------------------
(* The inputs: the files on disk and the scope of the review. *)

\* The paths of the working tree, in the order the listing of the files
\* (git diff --name-only, the directory walk) gives them.
PathListing == <<"a.js", "b.py", "c.ts">>

PathUniverse == {PathListing[i] : i \in 1..Len(PathListing)}

\* The rule of a file's fault is the rule whose evaluation throws on that
\* file's text (0: none does): the 2nd pattern of performStaticAnalysis, the
\* 2nd check of analyzeFiles.
Faults == {0, 2}

\* A function of LongFunctionLines + 2 lines: its declaration, a body of
\* LongFunctionLines lines, its closing brace.
LongFunction ==
    <<Ln(<<"function f", "{">>)>>
      \o [i \in 1..LongFunctionLines |-> Ln(<<"x", ";">>)]
      \o <<Ln(<<"}">>)>>

\* The file texts of the runs over several files.  The fourth is a long
\* function followed by another declaration, the last one is longer than the
\* size ceiling.
SampleContents ==
    { <<Ln(<<"console.log", ";">>), Ln(<<"readFileSync", ";">>)>>,
      <<Ln(<<"//", "TODO">>), Ln(<<"eval(", ";">>)>>,
      <<Ln(<<"password = 'x'", ";">>), Ln(<<"console.log", ";">>),
        Ln(<<"innerHTML =", "x", ";">>)>>,
      LongFunction \o <<Ln(<<"function f", "{">>)>>,
      <<Ln(<<"console.log", ";">>), Ln(<<"<data 50001>">>)>> }

Unreadable == [readable |-> FALSE, content |-> <<>>, fault |-> 0]

FileStates ==
    {Unreadable} \cup
    {[readable |-> TRUE, content |-> c, fault |-> f] :
        c \in SampleContents, f \in Faults}

Range(seq) == {seq[i] : i \in 1..Len(seq)}

\* The scopes: at most MaxFiles paths of the listing, in its order.
Scopes ==
    UNION {{[i \in 1..n |-> PathListing[pick[i]]] :
               pick \in {q \in [1..n -> 1..Len(PathListing)] :
                            \A i, j \in 1..n : i < j => q[i] < q[j]}} :
           n \in 0..MaxFiles}

\* The pieces a generated file is made of: single lines, and a long function.
Snippets ==
    { <<Ln(<<"function f", "{">>)>>,
      <<Ln(<<"}">>)>>,
      <<Ln(<<"var ", "console.log", ";">>)>>,
      <<Ln(<<"//", "TODO", "console.log">>)>>,
      <<Ln(<<"eval(", "password = 'x'", ";">>)>>,
      <<Ln(<<"for (", "42", "{">>)>>,
      <<Ln(<<"readFileSync", "(a, b, c, d, e) =>">>)>>,
      <<Ln(<<"<data 10000>">>)>>,
      LongFunction }

\* The file texts of the runs over one generated file: at most MaxSnippets
\* snippets one after the other, at most one of them the long function.
ScanContents ==
    UNION {{Concat(sn) : sn \in
               {r \in [1..n -> Snippets] :
                   Cardinality({i \in 1..n : Len(r[i]) > 1}) <= 1}} :
           n \in 1..MaxSnippets}

\* Four loop lines one after the other with no closing brace between them.
NestedLoops ==
    <<Ln(<<"for (", "{">>), Ln(<<"for (", "{">>),
      Ln(<<"while (", "{">>), Ln(<<"x", "forEach", "{">>)>>

\* A function of two lines followed by LongFunctionLines lines of code.
ShortFunctionThenCode ==
    <<Ln(<<"function f", "{">>), Ln(<<"}">>)>>
      \o [i \in 1..LongFunctionLines |-> Ln(<<"x", ";">>)]

\* The pieces of the files of the rule runs: lines of code, lines with
\* comments of each kind around what the rules match, declarations, a
\* function on one line, nested loops, and a short function before code.
RulePieces ==
    { <<Ln(<<"password = 'x'", ";">>)>>,
      <<Ln(<<"password = 'x'", " ", "process.env">>)>>,
      <<Ln(<<"password = 'x'", " ", "token = 'x'">>)>>,
      <<Ln(<<"password = 'x'", "api_key = 'x'", "secret = 'x'", "token = 'x'">>)>>,
      <<Ln(<<"//", " ", "api_key = 'x'", "console.log", "42",
             "(a, b, c, d, e) =>">>)>>,
      <<Ln(<<"x", ";", " ", "//", "console.log", "42", "(a, b, c, d, e) =>">>)>>,
      <<Ln(<<"/*", "secret = 'x'", "console.log", "42", "(a, b, c, d, e) =>",
             "*/">>)>>,
      <<Ln(<<"/*">>)>>,
      <<Ln(<<"*/">>)>>,
      <<Ln(<<"token = 'x'", "console.log", "42", "(a, b, c, d, e) =>">>)>>,
      <<Ln(<<"x", "eval(", ";">>)>>,
      <<Ln(<<"for (", "{">>)>>,
      <<Ln(<<"}">>)>>,
      <<Ln(<<"function f", "{">>)>>,
      <<Ln(<<"function f", "{", "x", ";", "}">>)>>,
      NestedLoops,
      ShortFunctionThenCode }

\* The file texts of the rule runs: at most MaxRulePieces pieces one after
\* the other, the long piece at most once among them.
RuleContents ==
    UNION {{Concat(sn) :
              sn \in {s \in [1..n -> RulePieces] :
                         Cardinality({k \in 1..n : s[k] = ShortFunctionThenCode}) <= 1}} :
           n \in 1..MaxRulePieces}

-----------------------------------------------------------------------------
(* The state machine. *)

InitRun ==
    /\ engine = "none"
    /\ pc = "idle"
    /\ idx = 0
    /\ fileAnalyses = <<>>
    /\ report = NoReport
    /\ result = NoResult
    /\ run = 1
    /\ firstReport = NoReport
    /\ regexLastIndex = 0
    /\ walk = NoWalk
    /\ fixMd = FALSE

\* A review of up to MaxFiles files, each unreadable or with a sample text.
Init ==
    /\ scope \in Scopes
    /\ disk \in [Range(scope) -> FileStates]
    /\ InitRun

\* A review of one generated file.
InitFile ==
    /\ scope = <<"a.js">>
    /\ disk \in [{"a.js"} -> {[readable |-> TRUE, content |-> c, fault |-> 0] :
                                 c \in ScanContents}]
    /\ InitRun

\* A review of one file of the rule runs.
InitRules ==
    /\ scope = <<"a.js">>
    /\ disk \in [{"a.js"} -> {[readable |-> TRUE, content |-> c, fault |-> 0] :
                                 c \in RuleContents}]
    /\ InitRun

\* performReview, lines 47-56: the scope is resolved; an empty scope is
\* returned as a failure.
PerformReviewStart ==
    /\ pc = "idle"
    /\ engine \in {"none", "performReview"}
    /\ engine' = "performReview"
    /\ IF Len(scope) = 0
       THEN /\ pc' = "done"
            /\ result' = [success |-> FALSE, error |-> "No files found for review"]
            /\ idx' = idx
       ELSE /\ pc' = "analyzing"
            /\ result' = result
            /\ idx' = 1
    /\ UNCHANGED <<fixMd, walk, disk, scope, fileAnalyses, report, run, firstReport,
                   regexLastIndex>>

\* performReview, lines 60-65: one iteration of the loop.  analyzeFile always
\* returns an object, so if (analysis) always holds.
AnalyzeFileA ==
    /\ pc = "analyzing"
    /\ engine = "performReview"
    /\ idx <= Len(scope)
    /\ fileAnalyses' = Append(fileAnalyses, AnalyzeFile(scope[idx], disk[scope[idx]]))
    /\ idx' = idx + 1
    /\ UNCHANGED <<fixMd, walk, disk, scope, engine, pc, report, result, run, firstReport,
                   regexLastIndex>>

\* performReview, line 71: generateReviewReport; generateAIInsights resolves
\* to the service's text or, when the call fails, to a failure note.
ReviewReportA ==
    /\ pc = "analyzing"
    /\ engine = "performReview"
    /\ idx > Len(scope)
    /\ \E ai \in {"insights", "AI analysis failed"} :
          report' = GenerateReviewReport(fileAnalyses, ai)
    /\ pc' = "aggregate"
    /\ UNCHANGED <<fixMd, walk, disk, scope, engine, idx, fileAnalyses, result, run,
                   firstReport, regexLastIndex>>

\* CreateFixMdFile returning success whether or not fix.md was written: the
\* fault the property C30 must detect.
CreateFixMdFile_SuccessWithoutFile ==
    /\ pc = "aggregate"
    /\ engine = "performReview"
    /\ \E written \in BOOLEAN :
          /\ fixMd' = written
          /\ result' = [success |-> TRUE,
                        filesReviewed |-> Len(scope),
                        issuesFound |-> Len(report.issues),
                        fixMdPath |-> "fix.md",
                        summary |-> report.summary]
    /\ pc' = "done"
    /\ UNCHANGED <<walk, disk, scope, engine, idx, fileAnalyses, report, run,
                   firstReport, regexLastIndex>>

\* performReview, lines 74-89: fix.md is written and the result returned; a
\* failed write is caught and returned as a failure.
CreateFixMdFile ==
    /\ pc = "aggregate"
    /\ engine = "performReview"
    /\ \E written \in BOOLEAN :
          /\ fixMd' = written
          /\ result' = IF written
                       THEN [success |-> TRUE,
                             filesReviewed |-> Len(scope),
                             issuesFound |-> Len(report.issues),
                             fixMdPath |-> "fix.md",
                             summary |-> report.summary]
                       ELSE [success |-> FALSE, error |-> "write failed"]
    /\ pc' = "done"
    /\ UNCHANGED <<walk, disk, scope, engine, idx, fileAnalyses, report, run,
                   firstReport, regexLastIndex>>

\* What reviewCode returns (lines 688-692) for the issues identified.
ReviewCodeResult(issues) ==
    [fixes |-> GenerateReport(issues),
     summary |-> GenerateSummary(issues),
     stats |-> GetStats(issues)]

\* reviewCode, line 683: getCodeFiles resolves the scope.
ReviewCodeStart ==
    /\ pc = "idle"
    /\ engine \in {"none", "reviewCode"}
    /\ engine' = "reviewCode"
    /\ pc' = "analyzing"
    /\ idx' = 1
    /\ UNCHANGED <<fixMd, walk, disk, scope, fileAnalyses, report, result, run, firstReport,
                   regexLastIndex>>

\* analyzeFiles, lines 742-763: one iteration of the loop.
AnalyzeFileB ==
    /\ pc = "analyzing"
    /\ engine = "reviewCode"
    /\ idx <= Len(scope)
    /\ fileAnalyses' = fileAnalyses \o
           AnalyzeFilesStep(scope[idx], disk[scope[idx]], regexLastIndex)
    /\ regexLastIndex' = RegexLastIndexAfter(disk[scope[idx]], regexLastIndex)
    /\ idx' = idx + 1
    /\ UNCHANGED <<fixMd, walk, disk, scope, engine, pc, report, result, run, firstReport>>

\* reviewCode, lines 685-692: identifyIssues, generateReport, generateSummary
\* and getStats, and the result returned.
ReviewCodeFinish ==
    /\ pc = "analyzing"
    /\ engine = "reviewCode"
    /\ idx > Len(scope)
    /\ LET issues == IdentifyIssues(fileAnalyses)
       IN  /\ report' = [kind |-> "reviewCode", issues |-> issues]
           /\ result' = ReviewCodeResult(issues)
    /\ pc' = "done"
    /\ UNCHANGED <<fixMd, walk, disk, scope, engine, idx, fileAnalyses, run, firstReport,
                   regexLastIndex>>

\* What a run reports of its static analysis: the findings, the files and
\* the counts, without the text of the AI service and the outcome of writing
\* fix.md.
ReportContent ==
    IF report.kind = "none" THEN NoReport
    ELSE IF engine = "performReview"
    THEN [kind |-> "performReview", issues |-> report.issues,
          summary |-> report.summary, filesSummary |-> report.filesSummary]
    ELSE [kind |-> "reviewCode", issues |-> report.issues,
          summary |-> result.summary, stats |-> result.stats,
          fixes |-> result.fixes]

\* The caller runs the same review again on the unchanged files, keeping
\* what the first run reported.
Rerun ==
    /\ pc = "done"
    /\ run = 1
    /\ run' = 2
    /\ firstReport' = ReportContent
    /\ pc' = "idle"
    /\ idx' = 0
    /\ fileAnalyses' = <<>>
    /\ report' = NoReport
    /\ result' = NoResult
    /\ fixMd' = FALSE
    /\ UNCHANGED <<walk, disk, scope, engine, regexLastIndex>>

Next ==
    \/ PerformReviewStart
    \/ AnalyzeFileA
    \/ ReviewReportA
    \/ CreateFixMdFile
    \/ ReviewCodeStart
    \/ AnalyzeFileB
    \/ ReviewCodeFinish
    \/ Rerun

Spec == Init /\ [][Next]_vars

SpecFile == InitFile /\ [][Next]_vars

SpecRules == InitRules /\ [][Next]_vars

-----------------------------------------------------------------------------
(* The resolution of the scope: getFilesToReview and getCodeFiles. *)

sourceExtensions ==
    {".js", ".ts", ".jsx", ".tsx", ".py", ".java", ".go", ".rs", ".php", ".rb",
     ".c", ".cpp", ".h", ".hpp"}

codeExtensions ==
    {".js", ".ts", ".jsx", ".tsx", ".py", ".java", ".cpp", ".c", ".go", ".rs"}

\* The extensions of the find command of getAllSourceFiles.
findExtensions ==
    {".js", ".ts", ".jsx", ".tsx", ".py", ".java", ".go", ".rs", ".php", ".rb"}

excludeDirs == {"node_modules", ".git", "dist", "build", ".next"}

\* ext.toLowerCase()
ToLowerCase(ext) == IF ext = ".JS" THEN ".js" ELSE ext

\* isSourceFile(filePath)
IsSourceFile(filePath) == ToLowerCase(ExtName(filePath)) \in sourceExtensions

\* name.startsWith('.')
IsHidden(name) == name \in {".git", ".next"}

RECURSIVE FilterIn(_, _)
\* files.filter(f => f is in keep), keep a set.
FilterIn(files, keep) ==
    IF files = <<>> THEN <<>>
    ELSE (IF Head(files) \in keep THEN <<Head(files)>> ELSE <<>>)
           \o FilterIn(Tail(files), keep)

\* The plain file of each level of a working tree, the root's first; no two
\* have the same name, so that the name stands for the path.
LevelFiles ==
    <<"a.js", "README.md", "b.py", "d.JS", "c.ts", "e.rb", "f.go", "g.rs", "h.c">>

\* The names of the directories that are hidden or vendor/build directories.
SpecialDirs == {".git", "node_modules", "dist"}

\* The working trees: a root, plain directories src one inside the other
\* down to level depth, and at most one special directory, inside the
\* directory of level specialAt (-1: none).  Each plain directory holds one
\* file, the special directory holds v.js.
Trees ==
    {[depth |-> n, specialAt |-> -1, specialName |-> "none"] : n \in 0..MaxTreeDepth}
      \cup UNION {{[depth |-> n, specialAt |-> k, specialName |-> d] :
                       k \in 0..n, d \in SpecialDirs} : n \in 0..MaxTreeDepth}

Root == [name |-> ".", depth |-> 0]

\* The directory entries of directory x of tree t that are directories, in
\* the order readdir lists them.
SubDirs(t, x) ==
    IF x.name \in SpecialDirs THEN <<>>
    ELSE (IF t.specialAt = x.depth
          THEN <<[name |-> t.specialName, depth |-> x.depth + 1]>> ELSE <<>>)
           \o (IF x.depth < t.depth
               THEN <<[name |-> "src", depth |-> x.depth + 1]>> ELSE <<>>)

\* The directory entries of directory x that are files; readdir lists them
\* before the directories.
FilesOf(t, x) ==
    IF x.name \in SpecialDirs THEN <<"v.js">> ELSE <<LevelFiles[x.depth + 1]>>

\* The names a git listing or a path option can hold.
ListedNames == <<"a.js", "README.md", "b.py", "d.JS", "Makefile">>

\* What git diff --name-only or find lists: at most MaxFiles names.
Listings ==
    UNION {{[i \in 1..n |-> ListedNames[pick[i]]] :
               pick \in {q \in [1..n -> 1..Len(ListedNames)] :
                            \A i, j \in 1..n : i < j => q[i] < q[j]}} :
           n \in 0..MaxFiles}

\* The resolutions of a scope: the options of performReview (a path that is
\* a file, a directory or missing; staged; neither, with git diff working or
\* failing) and the walk of reviewCode.  missing is the set of the listed
\* files that are deleted from the working tree.
Walks ==
    {[mode |-> m, tree |-> t, listing |-> <<>>, missing |-> {}, stage |-> "start",
      pending |-> <<>>, entered |-> {}, files |-> <<>>] :
        m \in {"directory", "walk"}, t \in Trees}
      \cup {[mode |-> m, tree |-> [depth |-> 0, specialAt |-> -1, specialName |-> "none"],
              listing |-> l, missing |-> d, stage |-> "start",
              pending |-> <<>>, entered |-> {}, files |-> <<>>] :
                m \in {"file", "staged", "changed", "fallback"}, l \in Listings,
                d \in {{}, {"a.js"}}}

\* The files of the runs that resolve their scope: every one readable.
ScopeDisk ==
    [f \in Range(LevelFiles) \cup Range(ListedNames) \cup {"v.js"} |->
        [readable |-> TRUE, content |-> <<Ln(<<"var ", "console.log", ";">>)>>,
         fault |-> 0]]

\* A review that starts with the resolution of its scope.
InitScope ==
    /\ walk \in Walks
    /\ disk = ScopeDisk
    /\ scope = <<>>
    /\ engine = "none"
    /\ pc = "scope"
    /\ idx = 0
    /\ fileAnalyses = <<>>
    /\ report = NoReport
    /\ result = NoResult
    /\ run = 1
    /\ firstReport = NoReport
    /\ regexLastIndex = 0
    /\ fixMd = FALSE

\* getAllSourceFiles on the candidates find visits: the names with one of
\* the extensions of the command, at most FindLimit of them.
GetAllSourceFiles(candidates) ==
    LET found == FilterIn(candidates,
                          {f \in Range(candidates) : ExtName(f) \in findExtensions})
    IN  SubSeq(found, 1, Min(Len(found), FindLimit))

\* getFilesToReview, lines 98-143: the files of the mode.  A path option
\* that does not exist makes fs.stat throw, which performReview returns as
\* a failure (lines 86-91); the walk of a directory goes on in
\* GetFilesInDirectory.
GetFilesToReview ==
    /\ pc = "scope"
    /\ walk.stage = "start"
    /\ walk.mode \in {"file", "directory", "staged", "changed", "fallback"}
    /\ engine' = "performReview"
    /\ IF walk.mode = "file" /\ (walk.listing = <<>> \/ walk.listing[1] \in walk.missing)
       THEN /\ pc' = "done"
            /\ result' = [success |-> FALSE, error |-> "Failed to get files for review"]
            /\ walk' = [walk EXCEPT !.stage = "done"]
       ELSE /\ pc' = pc
            /\ result' = result
            /\ walk' = [walk EXCEPT
                  !.stage = IF walk.mode = "directory" THEN "walking" ELSE "collected",
                  !.pending = IF walk.mode = "directory" THEN <<Root>> ELSE <<>>,
                  !.files =
                      CASE walk.mode = "file" -> <<walk.listing[1]>>
                        [] walk.mode = "directory" -> <<>>
                        [] walk.mode = "fallback" -> GetAllSourceFiles(walk.listing)
                        [] OTHER -> FilterIn(walk.listing,
                                             Range(walk.listing) \ walk.missing)]
    /\ UNCHANGED <<fixMd, disk, scope, idx, fileAnalyses, report, run, firstReport,
                   regexLastIndex>>

\* getFilesInDirectory, lines 157-183: one call, on the directory at the head
\* of the calls still to make.  The calls on its subdirectories come next,
\* before those on its siblings, as in the recursion.
GetFilesInDirectory ==
    /\ pc = "scope"
    /\ walk.mode = "directory"
    /\ walk.stage = "walking"
    /\ walk.pending # <<>>
    /\ LET x == Head(walk.pending)
           subs == SubDirs(walk.tree, x)
           kept == FilterIn(subs, {d \in Range(subs) :
                                     ~IsHidden(d.name) /\ d.name # "node_modules"})
           files == FilesOf(walk.tree, x)
       IN  walk' = IF x.depth >= MaxDepth
                   THEN [walk EXCEPT !.pending = Tail(walk.pending)]
                   ELSE [walk EXCEPT
                           !.pending = kept \o Tail(walk.pending),
                           !.entered = walk.entered \cup {x},
                           !.files = walk.files \o
                               FilterIn(files, {f \in Range(files) : IsSourceFile(f)})]
    /\ UNCHANGED <<fixMd, disk, scope, engine, pc, idx, fileAnalyses, report, result, run,
                   firstReport, regexLastIndex>>

\* GetFilesToReviewReturn without the filter of line 145: the fault the
\* property C18 must detect.
GetFilesToReviewReturn_Unfiltered ==
    /\ pc = "scope"
    /\ engine = "performReview"
    /\ \/ walk.stage = "collected"
       \/ walk.stage = "walking" /\ walk.pending = <<>>
    /\ scope' = walk.files
    /\ walk' = [walk EXCEPT !.stage = "done"]
    /\ pc' = "idle"
    /\ UNCHANGED <<fixMd, disk, engine, idx, fileAnalyses, report, result, run,
                   firstReport, regexLastIndex>>

\* getFilesToReview, line 145: the filter on isSourceFile, and the return to
\* performReview.
GetFilesToReviewReturn ==
    /\ pc = "scope"
    /\ engine = "performReview"
    /\ \/ walk.stage = "collected"
       \/ walk.stage = "walking" /\ walk.pending = <<>>
    /\ scope' = FilterIn(walk.files, {f \in Range(walk.files) : IsSourceFile(f)})
    /\ walk' = [walk EXCEPT !.stage = "done"]
    /\ pc' = "idle"
    /\ UNCHANGED <<fixMd, disk, engine, idx, fileAnalyses, report, result, run,
                   firstReport, regexLastIndex>>

\* getCodeFiles, lines 698-704: the walk starts at the working directory.
GetCodeFiles ==
    /\ pc = "scope"
    /\ walk.stage = "start"
    /\ walk.mode = "walk"
    /\ engine' = "reviewCode"
    /\ walk' = [walk EXCEPT !.stage = "walking", !.pending = <<Root>>]
    /\ UNCHANGED <<fixMd, disk, scope, pc, idx, fileAnalyses, report, result, run,
                   firstReport, regexLastIndex>>

\* walkDirectory, lines 717-737: one call, on the directory at the head of
\* the calls still to make.
WalkDirectory ==
    /\ pc = "scope"
    /\ walk.mode = "walk"
    /\ walk.stage = "walking"
    /\ walk.pending # <<>>
    /\ LET x == Head(walk.pending)
           subs == SubDirs(walk.tree, x)
           kept == FilterIn(subs, {d \in Range(subs) :
                                     d.name \notin excludeDirs /\ ~IsHidden(d.name)})
       IN  walk' = [walk EXCEPT
                      !.pending = kept \o Tail(walk.pending),
                      !.entered = walk.entered \cup {x},
                      !.files = walk.files \o FilesOf(walk.tree, x)]
    /\ UNCHANGED <<fixMd, disk, scope, engine, pc, idx, fileAnalyses, report, result, run,
                   firstReport, regexLastIndex>>

\* getCodeFiles, lines 705-714: the files that end with a code extension are
\* returned to reviewCode.
GetCodeFilesReturn ==
    /\ pc = "scope"
    /\ walk.mode = "walk"
    /\ walk.stage = "walking"
    /\ walk.pending = <<>>
    /\ scope' = FilterIn(walk.files,
                         {f \in Range(walk.files) : ExtName(f) \in codeExtensions})
    /\ walk' = [walk EXCEPT !.stage = "done"]
    /\ pc' = "idle"
    /\ UNCHANGED <<fixMd, disk, engine, idx, fileAnalyses, report, result, run,
                   firstReport, regexLastIndex>>

NextScope ==
    \/ GetFilesToReview
    \/ GetFilesInDirectory
    \/ GetFilesToReviewReturn
    \/ GetCodeFiles
    \/ WalkDirectory
    \/ GetCodeFilesReturn
    \/ Next

SpecScope == InitScope /\ [][NextScope]_vars

-----------------------------------------------------------------------------
(* The whole per-file loops, as functions of the processing order. *)

RECURSIVE AnalysesAFrom(_, _)
\* The fileAnalyses performReview collects (lines 59-65) for the files i..
\* of order.
AnalysesAFrom(order, i) ==
    IF i > Len(order) THEN <<>>
    ELSE <<AnalyzeFile(order[i], disk[order[i]])>> \o AnalysesAFrom(order, i + 1)

RECURSIVE AnalysesBFrom(_, _, _)
\* The analysis analyzeFiles returns for the files i.. of order, the last
\* functionRegex before them having been left at carried.
AnalysesBFrom(order, i, carried) ==
    IF i > Len(order) THEN <<>>
    ELSE AnalyzeFilesStep(order[i], disk[order[i]], carried)
           \o AnalysesBFrom(order, i + 1,
                            RegexLastIndexAfter(disk[order[i]], carried))

\* The analyses of analysed, which are those of the files of the scope in
\* its order, in the order order of the same files: analyzeFile reads
\* nothing but its file, so that performReview collects the same analysis
\* of a file wherever the file stands.
Reordered(analysed, order) ==
    [i \in 1..Len(order) |->
        analysed[CHOOSE k \in 1..Len(scope) : scope[k] = order[i]]]

\* The outcome of a run of engine e over the files of order: the sorted
\* findings and the paths of the analysed files as the run lists them.
\* analysedA is AnalysesAFrom(scope, 1).
OutcomeOfRun(e, order, analysedA) ==
    IF e = "performReview"
    THEN LET r == GenerateReviewReport(Reordered(analysedA, order), "insights")
         IN  [issues |-> r.issues,
              files  |-> [i \in 1..Len(r.filesSummary) |-> r.filesSummary[i].file]]
    ELSE LET an == AnalysesBFrom(order, 1, 0)
         IN  [issues |-> IdentifyIssues(an),
              files  |-> [i \in 1..Len(an) |-> an[i].file]]

\* The outcomes of the runs of the engine over the processing orders of the
\* files of the scope, each with its order.
OutcomesByOrder ==
    LET analysedA == IF engine = "performReview"
                     THEN AnalysesAFrom(scope, 1) ELSE <<>>
    IN  {[order |-> p, outcome |-> OutcomeOfRun(engine, p, analysedA)] :
            p \in {q \in [1..Len(scope) -> {scope[i] : i \in 1..Len(scope)}] :
                      \A i, j \in 1..Len(scope) : i # j => q[i] # q[j]}}

-----------------------------------------------------------------------------
(* Vocabulary of the properties. *)

HasReport == report.kind # "none"

\* The severity rank of the specification: Critical < High < Medium < Low <
\* Info, in the spelling of either engine.
SeverityRank(sev) ==
    CASE sev \in {"CRITICAL"}       -> 0
      [] sev \in {"HIGH", "high"}   -> 1
      [] sev \in {"MEDIUM", "medium"} -> 2
      [] sev \in {"LOW", "low"}     -> 3
      [] sev \in {"INFO", "info"}   -> 4

Severities == {"CRITICAL", "HIGH", "MEDIUM", "LOW", "INFO",
               "high", "medium", "low", "info"}

\* The findings in discovery order: those of each analysis collected so far,
\* in processing order, each stamped with its file.
Discovered ==
    IF engine = "performReview"
    THEN Concat([i \in 1..Len(fileAnalyses) |-> CollectedIssuesA(fileAnalyses[i])])
    ELSE Concat([i \in 1..Len(fileAnalyses) |->
            [j \in 1..Len(fileAnalyses[i].issues) |->
                WithFile(fileAnalyses[i].issues[j], fileAnalyses[i].file)]])

\* The path an analysis is about, whichever field carries it.
AnalysisPath(a) ==
    IF Has(a, "path") THEN a.path
    ELSE IF Has(a, "filePath") THEN a.filePath
    ELSE a.file

\* The findings of an analysis (none when it has no issues field).
AnalysisIssues(a) == IF Has(a, "issues") THEN a.issues ELSE <<>>

Oversized(f) == disk[f].readable /\ ContentLength(disk[f].content) > SizeCeiling

\* A rule throws when evaluated on file f by the engine.
RuleThrows(f) ==
    /\ disk[f].readable
    /\ IF engine = "performReview"
       THEN ~Oversized(f) /\ disk[f].fault \in 1..NumRulesA
       ELSE disk[f].fault \in 1..NumChecksB

\* x occurs as often in s as in t.
SameCount(s, t, x) ==
    Cardinality({i \in 1..Len(s) : s[i] = x}) = Cardinality({i \in 1..Len(t) : t[i] = x})

\* s and t hold the same elements, each as often.
SameBag(s, t) ==
    /\ Len(s) = Len(t)
    /\ \A i \in 1..Len(s) : SameCount(s, t, s[i])

-----------------------------------------------------------------------------
(* C1 *)

\* C1: after aggregation the report's findings are sorted by severity: the
\* rank (Critical < High < Medium < Low < Info) of each finding is at most
\* that of the next one.
C1_SortedBySeverity ==
    HasReport =>
        \A i \in 1..(Len(report.issues) - 1) :
            SeverityRank(report.issues[i].severity)
                <= SeverityRank(report.issues[i + 1].severity)

\* A report over two files that the sort had to reorder.
C1_Witness ==
    /\ HasReport
    /\ Len(fileAnalyses) >= 2
    /\ Len(report.issues) >= 3
    /\ report.issues # Discovered

(* C2 *)

RECURSIVE SumGroupSizes(_)
SumGroupSizes(groups) ==
    IF groups = <<>> THEN 0
    ELSE Len(Head(groups).issues) + SumGroupSizes(Tail(groups))

\* C2: in every report the per-severity counts of the summary sum to the
\* number of findings, and so do the sizes of the category groups.
C2_CountsSumToTotal ==
    /\ (HasReport /\ engine = "performReview") =>
          /\ report.summary.totalIssues = Len(report.issues)
          /\ report.summary.criticalIssues + report.summary.highIssues
               + report.summary.mediumIssues + report.summary.lowIssues
               = report.summary.totalIssues
    /\ (pc = "done" /\ engine = "reviewCode") =>
          /\ result.stats.total = Len(report.issues)
          /\ result.stats.high + result.stats.medium + result.stats.low
               + result.stats.info = result.stats.total
          /\ result.fixes.total = Len(report.issues)
          /\ result.fixes.bySeverity["high"] + result.fixes.bySeverity["medium"]
               + result.fixes.bySeverity["low"] + result.fixes.bySeverity["info"]
               = result.fixes.total
          /\ SumGroupSizes(result.fixes.byCategory) = result.fixes.total

\* A reviewCode result with findings of every severity it counts, in more
\* than two categories.
C2_Witness ==
    /\ pc = "done"
    /\ engine = "reviewCode"
    /\ result.stats.high > 0
    /\ result.stats.medium > 0
    /\ result.stats.low > 0
    /\ result.stats.info > 0
    /\ Len(result.fixes.byCategory) > 2

(* C3 *)

\* C3: every finding of a file has a line number between 1 and the number
\* of lines of that file, in the per-file analyses and in the report.
C3_LinesInRange ==
    /\ \A k \in 1..Len(fileAnalyses) :
          \A i \in 1..Len(AnalysisIssues(fileAnalyses[k])) :
              /\ 1 <= AnalysisIssues(fileAnalyses[k])[i].line
              /\ AnalysisIssues(fileAnalyses[k])[i].line
                   <= Len(disk[AnalysisPath(fileAnalyses[k])].content)
    /\ HasReport =>
          \A i \in 1..Len(report.issues) :
              /\ 1 <= report.issues[i].line
              /\ report.issues[i].line <= Len(disk[report.issues[i].file].content)

\* A file of more than 50 lines with a finding on its last line and another
\* on its first.
C3_Witness ==
    /\ HasReport
    /\ \E i, j \in 1..Len(report.issues) :
          /\ Len(disk[report.issues[i].file].content) > LongFunctionLines
          /\ report.issues[i].line = Len(disk[report.issues[i].file].content)
          /\ report.issues[j].line = 1

(* C4 *)

\* C4: a file longer than the size ceiling yields an analysis marked skipped
\* with no findings.
C4_OversizedIsSkipped ==
    \A k \in 1..Len(fileAnalyses) :
        Oversized(AnalysisPath(fileAnalyses[k])) =>
            /\ Has(fileAnalyses[k], "skipped")
            /\ fileAnalyses[k].skipped = TRUE
            /\ Len(AnalysisIssues(fileAnalyses[k])) = 0

(* C5 *)

\* C5: a file that cannot be read is excluded from the analysed files of the
\* report: the report has no row for it and does not count it as reviewed.
C5_UnreadableExcluded ==
    (pc = "done" /\ HasReport) =>
        LET readable == {f \in Range(scope) : disk[f].readable}
        IN  IF engine = "performReview"
            THEN /\ Len(report.filesSummary) <= Cardinality(readable)
                 /\ report.summary.filesReviewed <= Cardinality(readable)
                 /\ Has(result, "filesReviewed") =>
                        result.filesReviewed <= Cardinality(readable)
            ELSE \A k \in 1..Len(fileAnalyses) : fileAnalyses[k].file \in readable

(* C6 *)

\* C6: with no candidate file the review returns a failure carrying an
\* error message, not an ordinary report.
C6_EmptyScopeIsFailure ==
    (pc = "done" /\ Len(scope) = 0) =>
        /\ Has(result, "success")
        /\ result.success = FALSE
        /\ Has(result, "error")
        /\ ~HasReport

(* C7 *)

\* The findings that the rules other than the throwing one give for file f.
OtherRulesIssues(f) ==
    IF engine = "performReview"
    THEN LET fileInfo == [path |-> f, size |-> ContentLength(disk[f].content),
                          extension |-> ExtName(f), lines |-> Len(disk[f].content),
                          content |-> SliceLines(disk[f].content, ContentLimit)]
         IN  Concat([k \in 1..NumRulesA |->
                 IF k = disk[f].fault THEN <<>> ELSE RuleIssuesA(k, fileInfo)])
    ELSE Concat([c \in 1..NumChecksB |->
             IF c = disk[f].fault THEN <<>>
             ELSE RuleIssuesB(c, disk[f].content, 0)])

\* The findings of the report that are stamped with file f.
RECURSIVE IssuesOfFile(_, _)
IssuesOfFile(issues, f) ==
    IF issues = <<>> THEN <<>>
    ELSE (IF Head(issues).file = f THEN <<Head(issues)>> ELSE <<>>)
           \o IssuesOfFile(Tail(issues), f)

\* C7 as claimed: when a rule throws on a file, the findings of the other
\* rules for that file are still in the report.
C7_OnlyThrowingRuleSkipped ==
    HasReport =>
        \A f \in Range(scope) :
            RuleThrows(f) =>
                \A i \in 1..Len(OtherRulesIssues(f)) :
                    \E j \in 1..Len(report.issues) :
                        report.issues[j] = WithFile(OtherRulesIssues(f)[i], f)

\* C7 as amended: when a rule throws on a file, none of that file's findings
\* is reported (reviewCode has no analysis of the file, performReview an
\* error entry without findings), and every other analysable file has all
\* its findings in the report.
C7_ThrowingRuleDropsFile ==
    HasReport =>
        \A f \in Range(scope) :
            IF RuleThrows(f)
            THEN /\ IssuesOfFile(report.issues, f) = <<>>
                 /\ \A k \in 1..Len(fileAnalyses) :
                        AnalysisPath(fileAnalyses[k]) = f =>
                            /\ engine = "performReview"
                            /\ Has(fileAnalyses[k], "error")
                            /\ ~Has(fileAnalyses[k], "issues")
            ELSE (disk[f].readable /\ (engine = "reviewCode" \/ ~Oversized(f))) =>
                    \E k \in 1..Len(fileAnalyses) :
                        /\ AnalysisPath(fileAnalyses[k]) = f
                        /\ Has(fileAnalyses[k], "issues")
                        /\ SameBag(IssuesOfFile(report.issues, f),
                                   [i \in 1..Len(fileAnalyses[k].issues) |->
                                       WithFile(fileAnalyses[k].issues[i], f)])

\* A report of a run in which a rule threw on one file, with findings of
\* another file processed after it.
C7_Witness ==
    /\ HasReport
    /\ \E i, j \in 1..Len(scope) :
          /\ i < j
          /\ RuleThrows(scope[i])
          /\ Len(OtherRulesIssues(scope[i])) > 0
          /\ ~RuleThrows(scope[j])
          /\ IssuesOfFile(report.issues, scope[j]) # <<>>

(* C8 *)

\* C8: a second run on the same files, unchanged, yields the same findings
\* in the same order and the same summary counts as the first.
C8_SecondRunIdentical ==
    (run = 2 /\ pc = "done" /\ HasReport) =>
        /\ firstReport.kind = report.kind
        /\ report.issues = firstReport.issues
        /\ engine = "performReview" =>
               /\ report.summary = firstReport.summary
               /\ report.filesSummary = firstReport.filesSummary
        /\ engine = "reviewCode" =>
               /\ result.stats = firstReport.stats
               /\ result.fixes = firstReport.fixes
               /\ result.summary = firstReport.summary

\* A second run over several files that reported a long function.
C8_Witness ==
    /\ run = 2
    /\ pc = "done"
    /\ HasReport
    /\ Len(scope) >= 2
    /\ \E i \in 1..Len(report.issues) :
          /\ engine = "reviewCode"
          /\ report.issues[i].category = "Code Complexity"

(* C9 *)

\* C9 as claimed (stated of the first run; the second is C8's): whatever
\* the processing order of the files of the scope, the run yields the same
\* sequence of analysed files and the same sequence of findings.
C9_OrderIndependent ==
    (pc = "done" /\ run = 1 /\ HasReport) =>
        \A outcomes \in {OutcomesByOrder} :
            \A own, other \in outcomes :
                own.order = scope =>
                    /\ other.outcome.issues = report.issues
                    /\ other.outcome.files = own.outcome.files

\* C9 as amended (stated of the first run): whatever the processing order,
\* the run yields the same analysed files and the same findings, each as
\* often, with the same severity at each place of the findings; only the
\* order of the analysed files and of findings of equal severity follows
\* the processing order.
C9_OrderChangesOnlyTies ==
    (pc = "done" /\ run = 1 /\ HasReport) =>
        \A outcomes \in {OutcomesByOrder} :
            \A own, other \in outcomes :
                own.order = scope =>
                    /\ own.outcome.issues = report.issues
                    /\ SameBag(other.outcome.issues, report.issues)
                    /\ SameBag(other.outcome.files, own.outcome.files)
                    /\ \A i \in 1..Len(report.issues) :
                           SeverityRank(other.outcome.issues[i].severity)
                               = SeverityRank(report.issues[i].severity)

\* A report over two files with findings of equal severity in both.
C9_Witness ==
    /\ pc = "done"
    /\ run = 1
    /\ HasReport
    /\ \E i, j \in 1..Len(report.issues) :
          /\ report.issues[i].file # report.issues[j].file
          /\ report.issues[i].severity = report.issues[j].severity

(* C10 *)

\* The place of a finding's rule in the declaration order of its engine:
\* the patterns and the semicolon heuristic of performStaticAnalysis, the
\* checks of analyzeFiles.
RuleIndex(issue) ==
    IF Has(issue, "type") /\ ~Has(issue, "category")
    THEN IF \E k \in 1..Len(patterns) : patterns[k].message = issue.message
         THEN CHOOSE k \in 1..Len(patterns) : patterns[k].message = issue.message
         ELSE NumRulesA
    ELSE CASE issue.category = "Debug Code"      -> 1
           [] issue.category = "TODO/FIXME"      -> 2
           [] issue.category = "Code Complexity" -> 3
           [] issue.category = "Security"        -> 4
           [] issue.category = "Performance"     -> 5
           [] issue.category = "Maintainability" -> 6

\* C10: the findings order is a stable sort by severity: the findings of
\* each severity are in the report in discovery order (files in processing
\* order, within a file the per-file order, in which no finding of a later
\* rule precedes one of an earlier rule).
C10_StableSort ==
    /\ HasReport =>
          \A sev \in Severities :
              FilterSeverity(report.issues, sev) = FilterSeverity(Discovered, sev)
    /\ \A k \in 1..Len(fileAnalyses) :
          \A i, j \in 1..Len(AnalysisIssues(fileAnalyses[k])) :
              i < j => RuleIndex(AnalysisIssues(fileAnalyses[k])[i])
                         <= RuleIndex(AnalysisIssues(fileAnalyses[k])[j])

\* A report that the sort reordered and that holds two findings of equal
\* severity from different files.
C10_Witness ==
    /\ HasReport
    /\ report.issues # Discovered
    /\ \E i, j \in 1..Len(report.issues) :
          /\ i < j
          /\ report.issues[i].severity = report.issues[j].severity
          /\ report.issues[i].file # report.issues[j].file

(* C11 *)

\* The lines of a text that match the declaration heuristic.
DeclLines(lines) == {i \in 1..Len(lines) : RegexTest(lines[i], 0).matched}

RECURSIVE BraceBalance(_, _, _)
\* The opening braces less the closing braces of the lines lo..hi.
BraceBalance(lines, lo, hi) ==
    IF lo > hi THEN 0
    ELSE IF lo = hi
    THEN CountToken(lines[lo], "{") - CountToken(lines[lo], "}")
    ELSE BraceBalance(lines, lo, (lo + hi) \div 2)
           + BraceBalance(lines, (lo + hi) \div 2 + 1, hi)

\* The first line from i on at which the braces counted from the declaration
\* are back to zero after one was opened (0: there is none); depth is the
\* count before line i, opened tells if a brace was opened before it.
ClosingLineFrom(lines, i, depth, opened) ==
    LET closing == {k \in i..Len(lines) :
                       /\ opened \/ \E j \in i..k : CountToken(lines[j], "{") > 0
                       /\ depth + BraceBalance(lines, i, k) = 0}
    IN  IF closing = {} THEN 0
        ELSE CHOOSE k \in closing : \A j \in closing : k <= j

\* The findings of a category among issues.
RECURSIVE OfCategory(_, _)
OfCategory(issues, category) ==
    IF issues = <<>> THEN <<>>
    ELSE (IF Head(issues).category = category THEN <<Head(issues)>> ELSE <<>>)
           \o OfCategory(Tail(issues), category)

\* A text with exactly one declaration line, whose function closes more than
\* LongFunctionLines lines after it.
OneLongFunction(lines) ==
    /\ Cardinality(DeclLines(lines)) = 1
    /\ LET d == CHOOSE i \in DeclLines(lines) : TRUE
           c == ClosingLineFrom(lines, d, 0, FALSE)
       IN  c - d > LongFunctionLines

\* C11: for a file with exactly one declaration line whose braces balance back
\* to zero more than 50 lines later, the function-length scan of reviewCode
\* gives exactly one Code Complexity finding of medium severity, at the line
\* of the declaration.
C11_OneLongFunctionFinding ==
    engine = "reviewCode" =>
        \A k \in 1..Len(fileAnalyses) :
            LET lines == disk[fileAnalyses[k].file].content
                found == OfCategory(fileAnalyses[k].issues, "Code Complexity")
            IN  OneLongFunction(lines) =>
                    /\ Len(found) = 1
                    /\ found[1].line = CHOOSE i \in DeclLines(lines) : TRUE
                    /\ found[1].severity = "medium"

\* An analysed file whose one long function is declared after its first
\* line and followed by another line.
C11_Witness ==
    /\ engine = "reviewCode"
    /\ \E k \in 1..Len(fileAnalyses) :
          LET lines == disk[fileAnalyses[k].file].content
          IN  /\ OneLongFunction(lines)
              /\ 1 \notin DeclLines(lines)
              /\ Len(lines) \notin DeclLines(lines)
              /\ ClosingLineFrom(lines, CHOOSE i \in DeclLines(lines) : TRUE, 0, FALSE)
                   < Len(lines)

(* C12 *)

\* The findings of issues that the hardcoded-secret rule made at line i.
SecretFindingsAt(issues, i) ==
    {k \in 1..Len(issues) :
        /\ issues[k].line = i
        /\ issues[k].message.text = "Possible hardcoded secret detected"}

\* The findings of issues of category Security at line i.
SecurityFindingsAt(issues, i) ==
    {k \in 1..Len(issues) : issues[k].line = i /\ issues[k].category = "Security"}

\* The secret patterns that match a line.
MatchingSecretPatterns(line) == {p \in 1..4 : SecretTest(p, line)}

\* C12: a line that exactly one secret pattern matches and that has no
\* process.env in it gets exactly one finding of the hardcoded-secret rule, of
\* category Security and severity high, and it is the only Security finding
\* of the line unless the file's first eval( is on the line too; a line that
\* a secret pattern matches and that has process.env in it gets no finding of
\* the rule, and no Security finding at all unless the file's first eval( is
\* on it.
C12_OneSecretFindingPerLine ==
    engine = "reviewCode" =>
        \A a \in 1..Len(fileAnalyses) :
            LET lines == disk[fileAnalyses[a].file].content
                issues == fileAnalyses[a].issues
            IN  \A i \in 1..Len(lines) :
                    LET found == SecretFindingsAt(issues, i)
                    IN  /\ (/\ Cardinality(MatchingSecretPatterns(lines[i])) = 1
                            /\ ~Includes(lines[i], "process.env"))
                           => /\ Cardinality(found) = 1
                              /\ \A k \in found : /\ issues[k].category = "Security"
                                                  /\ issues[k].severity = "high"
                              /\ EvalLine(lines) # i
                                   => SecurityFindingsAt(issues, i) = found
                        /\ (/\ MatchingSecretPatterns(lines[i]) # {}
                            /\ Includes(lines[i], "process.env"))
                           => /\ found = {}
                              /\ EvalLine(lines) # i
                                   => SecurityFindingsAt(issues, i) = {}

\* An analysed file with a literal secret on one line and a secret next to
\* process.env on another.
C12_Witness ==
    /\ engine = "reviewCode"
    /\ \E a \in 1..Len(fileAnalyses) :
          LET lines == disk[fileAnalyses[a].file].content
          IN  /\ \E i \in 1..Len(lines) :
                    /\ Cardinality(MatchingSecretPatterns(lines[i])) = 1
                    /\ ~Includes(lines[i], "process.env")
                    /\ Cardinality(SecretFindingsAt(fileAnalyses[a].issues, i)) = 1
              /\ \E i \in 1..Len(lines) :
                    /\ MatchingSecretPatterns(lines[i]) # {}
                    /\ Includes(lines[i], "process.env")

(* C13 *)

RECURSIVE InBlockAfter(_, _, _)
\* Whether a block comment is open after the tokens j.. of a line, given
\* whether one is open before them.
InBlockAfter(line, j, open) ==
    IF j > Len(line) THEN open
    ELSE InBlockAfter(line, j + 1,
                      IF line[j].s = "/*" THEN TRUE
                      ELSE IF line[j].s = "*/" THEN FALSE ELSE open)

\* Whether a block comment is open at the start of line i of lines: the
\* last line before it that has a comment mark ends inside one.
BlockOpenBefore(lines, i) ==
    LET marked == {k \in 1..(i - 1) :
                      \E j \in 1..Len(lines[k]) : lines[k][j].s \in {"/*", "*/"}}
    IN  IF marked = {} THEN FALSE
        ELSE InBlockAfter(lines[CHOOSE k \in marked : \A j \in marked : j <= k],
                          1, FALSE)

\* Token j of line i lies in a block comment.
InBlockComment(lines, i, j) ==
    /\ lines[i][j].s \notin {"/*", "*/"}
    /\ InBlockAfter(SubSeq(lines[i], 1, j), 1, BlockOpenBefore(lines, i))

\* Token j of line i lies in a // comment that starts the line.
InLineComment(lines, i, j) ==
    /\ IsCommentLine(lines[i])
    /\ \E c \in 1..(j - 1) : lines[i][c].s = "//"

\* Token j of line i lies in a // comment that follows code on the line.
InTrailingComment(lines, i, j) ==
    /\ ~IsCommentLine(lines[i])
    /\ \E c \in 1..(j - 1) :
          /\ lines[i][c].s = "//"
          /\ ~InBlockAfter(SubSeq(lines[i], 1, c), 1, BlockOpenBefore(lines, i))

\* The tokens of line i that a secret pattern matches.
SecretTokens(lines, i) ==
    {j \in 1..Len(lines[i]) : SecretPatternsOf(lines[i][j].s) # {}}

\* C13: a secret literal on a line that starts with // or inside a block
\* comment still gets a finding of the hardcoded-secret rule, of category
\* Security (unless the line has process.env in it).
C13_CommentedSecretReported ==
    engine = "reviewCode" =>
        \A a \in 1..Len(fileAnalyses) :
            LET lines == disk[fileAnalyses[a].file].content
                issues == fileAnalyses[a].issues
            IN  \A i \in 1..Len(lines) :
                    (/\ \E j \in SecretTokens(lines, i) :
                            InLineComment(lines, i, j) \/ InBlockComment(lines, i, j)
                     /\ ~Includes(lines[i], "process.env"))
                    => /\ SecretFindingsAt(issues, i) # {}
                       /\ SecretFindingsAt(issues, i) \subseteq SecurityFindingsAt(issues, i)

\* An analysed file with a secret on a line inside a block comment opened on
\* the line before, and one with a secret on a line that starts with //.
C13_Witness ==
    /\ engine = "reviewCode"
    /\ \E a \in 1..Len(fileAnalyses) :
          LET lines == disk[fileAnalyses[a].file].content
          IN  \E i, k \in 1..Len(lines) :
                  /\ BlockOpenBefore(lines, i)
                  /\ \E j \in SecretTokens(lines, i) : InBlockComment(lines, i, j)
                  /\ SecretFindingsAt(fileAnalyses[a].issues, i) # {}
                  /\ \E j \in SecretTokens(lines, k) : InLineComment(lines, k, j)
                  /\ SecretFindingsAt(fileAnalyses[a].issues, k) # {}

(* C14 *)

\* Token j of line i lies in a comment of one of the three kinds.
InComment(lines, i, j) ==
    \/ InLineComment(lines, i, j)
    \/ InTrailingComment(lines, i, j)
    \/ InBlockComment(lines, i, j)

\* The category of a finding, whichever field carries it.
FindingKind(issue) == IF Has(issue, "category") THEN issue.category ELSE issue.type

\* The tokens of line i that a rule of the category matches.
RuleTokens(lines, i, kind) ==
    {j \in 1..Len(lines[i]) :
        IF kind = "Debug Code" THEN lines[i][j].s = "console.log"
        ELSE \/ NumberValue(lines[i][j].s) \notin {0, 1, 100, 1000}
             \/ ParamCount(lines[i][j].s) > MaxParams}

\* C14: a line whose console.log matches all lie inside comments (a //
\* comment that starts the line, a // comment after code, a block comment)
\* gets no Debug Code finding, and a line whose magic numbers and long
\* parameter lists all lie inside comments gets no Maintainability finding.
C14_CommentedMatchesSuppressed ==
    \A a \in 1..Len(fileAnalyses) :
        LET lines == disk[AnalysisPath(fileAnalyses[a])].content
            issues == AnalysisIssues(fileAnalyses[a])
        IN  \A i \in 1..Len(lines) :
                \A kind \in {"Debug Code", "Maintainability"} :
                    (/\ RuleTokens(lines, i, kind) # {}
                     /\ \A j \in RuleTokens(lines, i, kind) : InComment(lines, i, j))
                    => ~\E k \in 1..Len(issues) :
                           /\ issues[k].line = i
                           /\ FindingKind(issues[k]) = kind

(* C15 *)

\* The findings of issues at line i that are of category Security and of
\* severity Critical.
CriticalSecurityAt(issues, i) ==
    {k \in 1..Len(issues) :
        /\ issues[k].line = i
        /\ FindingKind(issues[k]) = "Security"
        /\ issues[k].severity \in {"CRITICAL", "critical"}}

\* C15: each eval( of an analysed file has a Security finding of severity
\* Critical at its line, and in the report every Critical finding comes
\* before every finding of another severity.
C15_EvalReportedCritical ==
    /\ \A a \in 1..Len(fileAnalyses) :
          LET lines == disk[AnalysisPath(fileAnalyses[a])].content
              issues == AnalysisIssues(fileAnalyses[a])
          IN  (Has(fileAnalyses[a], "issues") \/ engine = "reviewCode") =>
              \A i \in 1..Len(lines) :
                  Cardinality(CriticalSecurityAt(issues, i))
                    >= Cardinality({j \in 1..Len(lines[i]) : lines[i][j].s = "eval("})
    /\ (pc = "done" /\ HasReport) =>
          \A k, l \in 1..Len(report.issues) :
              (/\ report.issues[k].severity \in {"CRITICAL", "critical"}
               /\ report.issues[l].severity \notin {"CRITICAL", "critical"})
              => k < l

(* C16 *)

\* The lines i..i+3 are four loop lines with no closing brace in them.
FourLoopLines(lines, i) ==
    /\ i + 3 <= Len(lines)
    /\ \A k \in i..(i + 3) : IsLoopLine(lines[k]) /\ ~Includes(lines[k], "}")

\* The loop depth the scan has counted before line i.
LoopDepthBefore(lines, i) ==
    LoopScanFrom(LoopScanInit, SubSeq(lines, 1, i - 1), 1).loopDepth

\* The lines in from..to at which issues has a nested-loop finding of
\* category Performance and severity medium.
NestedLoopLines(issues, from, to) ==
    {n \in from..to : \E k \in 1..Len(issues) :
        /\ issues[k].line = n
        /\ issues[k].message.text = "Deeply nested loops detected"
        /\ issues[k].category = "Performance"
        /\ issues[k].severity = "medium"}

\* C16: four loop lines in succession with no closing brace between them get
\* at least one nested-loop finding of category Performance and severity
\* medium, the first of them at the line where the depth first exceeds
\* MaxLoopDepth: the third of the four when no loop is open before them.
C16_NestedLoopsReported ==
    engine = "reviewCode" =>
        \A a \in 1..Len(fileAnalyses) :
            LET lines == disk[fileAnalyses[a].file].content
                issues == fileAnalyses[a].issues
            IN  \A i \in 1..Len(lines) :
                    FourLoopLines(lines, i) =>
                        LET found == NestedLoopLines(issues, i, i + 3)
                            first == i + Max(0, MaxLoopDepth - LoopDepthBefore(lines, i))
                        IN  /\ found # {}
                            /\ first \in found
                            /\ \A n \in found : first <= n
                            /\ LoopDepthBefore(lines, i) = 0 => first = i + 2

\* An analysed file with four loop lines after a line that is no loop, with
\* findings at the third and the fourth of them.
C16_Witness ==
    /\ engine = "reviewCode"
    /\ \E a \in 1..Len(fileAnalyses) :
          LET lines == disk[fileAnalyses[a].file].content
          IN  \E i \in 2..Len(lines) :
                  /\ FourLoopLines(lines, i)
                  /\ ~IsLoopLine(lines[i - 1])
                  /\ LoopDepthBefore(lines, i) = 0
                  /\ NestedLoopLines(fileAnalyses[a].issues, i, i + 3) = {i + 2, i + 3}

(* C17 *)

\* C17: a directory walk of either engine enters (reads) no directory more
\* than MaxDepth levels below the root, no hidden directory and no
\* node_modules directory.
C17_WalkBounded ==
    walk.mode \in {"directory", "walk"} =>
        \A x \in walk.entered :
            /\ x.depth <= MaxDepth
            /\ ~IsHidden(x.name)
            /\ x.name # "node_modules"

(* C18 *)

\* C18: in every mode of getFilesToReview (a file path, a directory path,
\* staged files, changed files, the fallback to all source files) each file
\* of the resolved scope, and so each file performReview analyses, has an
\* extension of the allow-list sourceExtensions (compared in lower case).
C18_OnlySourceFilesAnalysed ==
    (engine = "performReview" /\ walk.mode # "none") =>
        /\ \A i \in 1..Len(scope) :
              ToLowerCase(ExtName(scope[i])) \in sourceExtensions
        /\ \A a \in 1..Len(fileAnalyses) :
              ToLowerCase(ExtName(AnalysisPath(fileAnalyses[a]))) \in sourceExtensions

\* A run on staged files that has analysed d.JS and left the staged
\* README.md out.
C18_Witness ==
    /\ engine = "performReview"
    /\ walk.mode = "staged"
    /\ walk.listing = <<"README.md", "d.JS">>
    /\ walk.missing = {}
    /\ Len(fileAnalyses) = 1
    /\ AnalysisPath(fileAnalyses[1]) = "d.JS"

(* C19 *)

\* C19: the complexity score of an analysed file is 1 plus the number of
\* complexity tokens anywhere in the file's text, capped at ComplexityCap.
C19_ComplexityOfWholeFile ==
    engine = "performReview" =>
        \A a \in 1..Len(fileAnalyses) :
            Has(fileAnalyses[a], "complexity") =>
                fileAnalyses[a].complexity =
                    Min(1 + ComplexityFrom(disk[fileAnalyses[a].path].content, 1),
                        ComplexityCap)

(* C20 *)

\* C20: the maintainability score of an analysed file is the clamped sum of
\* the adjustments for the line count, the comment-line ratio and the average
\* line length, each measured on the file's whole text.
C20_MaintainabilityOfWholeFile ==
    engine = "performReview" =>
        \A a \in 1..Len(fileAnalyses) :
            Has(fileAnalyses[a], "maintainability") =>
                LET whole == disk[fileAnalyses[a].path].content
                IN  fileAnalyses[a].maintainability.score =
                        AssessMaintainability(whole, [lines |-> Len(whole)]).score

(* C21 *)

RECURSIVE NewlineOffsets(_, _)
\* The offsets in a text of its newline characters, the text being lines
\* and start the offset of its first character.
NewlineOffsets(lines, start) ==
    IF Len(lines) <= 1 THEN <<>>
    ELSE LET h == Len(lines) \div 2
             mid == start + SumLineLengths(SubSeq(lines, 1, h)) + h - 1
         IN  NewlineOffsets(SubSeq(lines, 1, h), start)
               \o <<mid>>
               \o NewlineOffsets(SubSeq(lines, h + 1, Len(lines)), mid + 1)

\* C21: each match of a pattern of performStaticAnalysis at offset o of the
\* text has a finding whose line is 1 + the number of newlines before o and
\* whose column is o minus the offset of the last newline before o (o + 1
\* when there is none); the line and the column of every pattern finding are
\* at least 1 and the column is at most the length of the line.
C21_LineAndColumnOfMatch ==
    engine = "performReview" =>
        \A a \in 1..Len(fileAnalyses) :
            Has(fileAnalyses[a], "issues") =>
            LET text == disk[fileAnalyses[a].path].content
                issues == fileAnalyses[a].issues
            IN  \A nl \in {NewlineOffsets(text, 0)} :
                /\ \A i \in 1..Len(text) : \A j \in 1..Len(text[i]) :
                      \A k \in {n \in 1..Len(patterns) :
                                   text[i][j].s \in PatternTokens(n)} :
                          \A o \in {MatchIndex(text, i, j)} :
                              \A before \in {{n \in 1..Len(nl) : nl[n] < o}} :
                                  o + text[i][j].len <= ContentLimit =>
                                      \E f \in 1..Len(issues) :
                                          /\ issues[f].type = patterns[k].type
                                          /\ issues[f].code = text[i][j].s
                                          /\ issues[f].line = 1 + Cardinality(before)
                                          /\ issues[f].column =
                                               IF before = {} THEN o + 1
                                               ELSE o - nl[Cardinality(before)]
                /\ \A f \in 1..Len(issues) :
                      issues[f].code # Undefined =>
                          /\ issues[f].line \in 1..Len(text)
                          /\ issues[f].column >= 1
                          /\ issues[f].column <= LineLength(text[issues[f].line])

\* An analysed file with a pattern finding after the first line and after
\* the first column.
C21_Witness ==
    /\ engine = "performReview"
    /\ \E a \in 1..Len(fileAnalyses) :
          /\ Has(fileAnalyses[a], "issues")
          /\ \E f \in 1..Len(fileAnalyses[a].issues) :
                /\ fileAnalyses[a].issues[f].code # Undefined
                /\ fileAnalyses[a].issues[f].line > 1
                /\ fileAnalyses[a].issues[f].column > 1

(* C22 *)

\* C22, as claimed: the priority-fixes section of the rendered report is the
\* first min(PriorityFixes, number of findings) entries of the sorted
\* findings, and so has an entry whenever the report has a finding.
C22_TopFindingsListed ==
    (pc = "done" /\ engine = "reviewCode") =>
        /\ result.fixes.priorityFixes =
             SubSeq(report.issues, 1, Min(PriorityFixes, Len(report.issues)))
        /\ report.issues # <<>> => result.fixes.priorityFixes # <<>>

\* C22, amended: the High Priority Fixes section of the report of reviewCode
\* is the first min(PriorityFixes, h) entries of the sorted findings, h being
\* the number of findings of severity high: all of them are of severity
\* high, none is listed when no finding is, and no finding left out is more
\* severe than a listed one.
C22_TopHighFindingsListed ==
    (pc = "done" /\ engine = "reviewCode") =>
        LET listed == result.fixes.priorityFixes
            h == Cardinality({k \in 1..Len(report.issues) :
                                 report.issues[k].severity = "high"})
        IN  /\ Len(listed) = Min(PriorityFixes, h)
            /\ listed = SubSeq(report.issues, 1, Len(listed))
            /\ \A n \in 1..Len(listed) : listed[n].severity = "high"
            /\ \A n \in 1..Len(listed), m \in (Len(listed) + 1)..Len(report.issues) :
                  SeverityRank(report.issues[m].severity)
                    >= SeverityRank(listed[n].severity)

\* A report of reviewCode with more than PriorityFixes findings of severity
\* high, PriorityFixes of them listed.
C22_Witness ==
    /\ pc = "done"
    /\ engine = "reviewCode"
    /\ Cardinality({k \in 1..Len(report.issues) :
                       report.issues[k].severity = "high"}) > PriorityFixes
    /\ Len(result.fixes.priorityFixes) = PriorityFixes

(* C23 *)

RECURSIVE FnStatesRange(_, _, _, _)
\* The states of the long-function scan after each of the lines lo..hi, the
\* scan being in state st before line lo: those of the first half of the
\* lines, then those of the second half from the last state of the first.
FnStatesRange(st, lines, lo, hi) ==
    IF lo > hi THEN <<>>
    ELSE IF lo = hi THEN <<FnStep(st, lines[lo], lo - 1)>>
    ELSE LET left == FnStatesRange(st, lines, lo, (lo + hi) \div 2)
         IN  IF Len(left) >= 0
             THEN left \o FnStatesRange(left[Len(left)], lines,
                                        (lo + hi) \div 2 + 1, hi)
             ELSE <<>>

\* The states of the long-function scan after each of the lines
\* i..Len(lines), the scan being in state st before line i.
FnStatesFrom(st, lines, i) == FnStatesRange(st, lines, i, Len(lines))

\* The states of the long-function scan of a text: the first is the state
\* before line 1, state n + 1 the state after line n.
FnStates(lines) ==
    <<FnScanInit(NewRegexLastIndex(0))>>
      \o FnStatesFrom(FnScanInit(NewRegexLastIndex(0)), lines, 1)

\* C23: a line that matches the declaration heuristic while a span is open
\* (a declaration was seen and the brace balance is above zero) leaves the
\* start line of the span as it is and changes the brace balance by its own
\* braces only.
C23_OpenSpanNotRestarted ==
    engine = "reviewCode" =>
        \A a \in 1..Len(fileAnalyses) :
            LET lines == disk[fileAnalyses[a].file].content
            IN  \A st \in {FnStates(lines)} :
                    \A i \in DeclLines(lines) :
                        (st[i].currentFunction /\ st[i].braceCount > 0) =>
                            /\ st[i + 1].functionStartLine = st[i].functionStartLine
                            /\ st[i + 1].braceCount =
                                 st[i].braceCount + CountToken(lines[i], "{")
                                   - CountToken(lines[i], "}")

(* C24 *)

\* C24: a span is closed when its brace balance is back to zero: a finding
\* anchored at a declaration line is never made on a line after the line
\* that closes the span of that declaration.
C24_ClosedSpanNeverReported ==
    engine = "reviewCode" =>
        \A a \in 1..Len(fileAnalyses) :
            LET lines == disk[fileAnalyses[a].file].content
            IN  \A st \in {FnStates(lines)} :
                    \A i \in 1..Len(lines) :
                        Len(st[i + 1].issues) > Len(st[i].issues) =>
                            \A d \in {st[i + 1].issues[Len(st[i + 1].issues)].line} :
                                \A c \in {ClosingLineFrom(lines, d, 0, FALSE)} :
                                    c # 0 => i <= c

(* C25 *)

\* C25: the span of the one declaration of a file, from the declaration line
\* through the line that brings the brace balance back to zero, is reported
\* if and only if it has more than LongFunctionLines lines, and the finding
\* carries that number of lines.
C25_ReportedIffLongerThanLimit ==
    engine = "reviewCode" =>
        \A a \in 1..Len(fileAnalyses) :
            LET lines == disk[fileAnalyses[a].file].content
                found == OfCategory(fileAnalyses[a].issues, "Code Complexity")
            IN  Cardinality(DeclLines(lines)) = 1 =>
                    \A d \in DeclLines(lines) :
                        \A c \in {ClosingLineFrom(lines, d, 0, FALSE)} :
                            (c # 0 /\ c = Len(lines)) =>
                                /\ (\E f \in 1..Len(found) : found[f].line = d)
                                     <=> (c - d + 1 > LongFunctionLines)
                                /\ \A f \in 1..Len(found) :
                                      found[f].line = d =>
                                          found[f].message.n = c - d + 1

(* C26 *)

\* C26: a line that the declaration heuristic matches while no span is open
\* (no declaration was seen yet, or the brace balance is back to zero) opens
\* a span that starts at that line, whatever the lines before it are.
C26_DeclarationOpensSpan ==
    engine = "reviewCode" =>
        \A a \in 1..Len(fileAnalyses) :
            LET lines == disk[fileAnalyses[a].file].content
            IN  \A st \in {FnStates(lines)} :
                    \A i \in DeclLines(lines) :
                        ~(st[i].currentFunction /\ st[i].braceCount > 0) =>
                            /\ st[i + 1].currentFunction
                            /\ st[i + 1].functionStartLine = i

(* C27 *)

RECURSIVE LoopDepthsRange(_, _, _, _)
\* The loop depths the scan has counted after each of the lines lo..hi,
\* depth being the count before line lo: those of the first half of the
\* lines, then those of the second half from the last depth of the first.
LoopDepthsRange(depth, lines, lo, hi) ==
    IF lo > hi THEN <<>>
    ELSE IF lo = hi
    THEN <<LoopStep([loopDepth |-> depth, issues |-> <<>>],
                    lines[lo], lo - 1).loopDepth>>
    ELSE LET left == LoopDepthsRange(depth, lines, lo, (lo + hi) \div 2)
         IN  IF Len(left) >= 0
             THEN left \o LoopDepthsRange(left[Len(left)], lines,
                                          (lo + hi) \div 2 + 1, hi)
             ELSE <<>>

\* The loop depths the scan has counted after each of the lines
\* i..Len(lines), depth being the count before line i.
LoopDepthsFrom(depth, lines, i) == LoopDepthsRange(depth, lines, i, Len(lines))

C28_LoopDepthNeverNegative ==
    engine = "reviewCode" =>
        \A a \in 1..Len(fileAnalyses) :
            LET lines == disk[fileAnalyses[a].file].content
            IN  \A depth \in {<<0>> \o LoopDepthsFrom(0, lines, 1)} :
                    \A i \in 1..Len(lines) :
                        LET up == IF IsLoopLine(lines[i]) THEN 1 ELSE 0
                            down == IF Includes(lines[i], "}") THEN 1 ELSE 0
                        IN  /\ depth[i] >= 0
                            /\ depth[i + 1] >= 0
                            /\ depth[i + 1] =
                                 (IF depth[i] + up - down < 0 THEN 0
                                  ELSE depth[i] + up - down)

\* An analysed file with a closing-brace line scanned at depth zero, which
\* leaves the depth at zero, and a loop line that raises the depth.
C28_Witness ==
    /\ engine = "reviewCode"
    /\ \E a \in 1..Len(fileAnalyses) :
          LET lines == disk[fileAnalyses[a].file].content
              depth == <<0>> \o LoopDepthsFrom(0, lines, 1)
          IN  /\ \E i \in 1..Len(lines) :
                    /\ Includes(lines[i], "}")
                    /\ ~IsLoopLine(lines[i])
                    /\ depth[i] = 0
                    /\ depth[i + 1] = 0
              /\ \E j \in 1..Len(lines) :
                    /\ IsLoopLine(lines[j])
                    /\ depth[j + 1] = depth[j] + 1

(* C29 *)

\* C29: every entry of filesSummary in the report of performReview, the
\* entries of skipped and unreadable files included, has a complexity that is
\* an integer from 1 to ComplexityCap and a maintainability score that is an
\* integer from 1 to 10.
C29_ScoresInRange ==
    report.kind = "performReview" =>
        \A i \in 1..Len(report.filesSummary) :
            /\ report.filesSummary[i].complexity \in 1..ComplexityCap
            /\ report.filesSummary[i].maintainability.score \in 1..10

(* C30 *)

=============================================================================
